---------------------------- MODULE Spec2Model ----------------------------
(***************************************************************************)
(* A model of the gameplay simulation of pacman.c (src/pacman.c-main/      *)
(* pacman.c): the trigger vocabulary, the tile/pixel utilities, the        *)
(* movement engine, the ghost state machine, the ghost-house dot counters  *)
(* and the per-tick orchestrator (frame -> intro_tick / game_tick).        *)
(*                                                                         *)
(* The program keeps all of its state in one static struct `state`; the    *)
(* variables below are the members of that struct that the simulation      *)
(* reads.  Sprites, colours, sound and the frame-time accumulator are      *)
(* presentation and are not represented; actor_t.anim_tick (read only by   *)
(* the sprite animation) is left out as well.  The operators that model    *)
(* C functions take the whole state as a record S and return the new one.  *)
(***************************************************************************)
EXTENDS Integers, Sequences, FiniteSets, TLC

VARIABLES
    gamestate,  \* state.gamestate
    timing,     \* state.timing   (tick)
    intro,      \* state.intro    (started)
    game,       \* state.game
    input1,     \* state.input1
    input2,     \* state.input2
    gfx,        \* state.gfx      (fadein, fadeout, video_ram)
    build,      \* what the compiler chose where C leaves the order open
    env,        \* the environment: position in the key script that is played
    obs         \* observations of the last step (what ran, what was eaten)

vars == <<gamestate, timing, intro, game, input1, input2, gfx, build, env, obs>>

-----------------------------------------------------------------------------
(* Bounds of the model (not program constants).                            *)

\* last tick of the trigger specification
MaxTrigTick == 6
\* largest argument handed to start_after / before / after / between there
MaxTrigArg == 4

-----------------------------------------------------------------------------
(* Config defines and global constants.                                    *)

\* 0xFFFFFFFF (see the machine arithmetic below for the representation of uint32_t)
DISABLED_TICKS == -1
TILE_WIDTH == 8
TILE_HEIGHT == 8
DISPLAY_TILES_X == 28
DISPLAY_TILES_Y == 36
DISPLAY_PIXELS_X == DISPLAY_TILES_X * TILE_WIDTH
DISPLAY_PIXELS_Y == DISPLAY_TILES_Y * TILE_HEIGHT
FADE_TICKS == 30
NUM_LIVES == 6
NUM_DOTS == 244
NUM_GHOSTS == 4
ANTEPORTAS_X == 14 * TILE_WIDTH
ANTEPORTAS_Y == 14 * TILE_HEIGHT + TILE_HEIGHT \div 2
GHOST_EATEN_FREEZE_TICKS == 60
PACMAN_EATEN_TICKS == 60
PACMAN_DEATH_TICKS == 150
GAMEOVER_TICKS == 3 * 60
ROUNDWON_TICKS == 4 * 60
FRUITACTIVE_TICKS == 10 * 60
DBG_START_ROUND == 0
MAX_LEVELSPEC == 21

TILE_SPACE == 64
TILE_DOT == 16
TILE_PILL == 20
TILE_DOOR == 207

\* dir_t
DIR_RIGHT == 0
DIR_DOWN == 1
DIR_LEFT == 2
DIR_UP == 3
NUM_DIRS == 4
Dirs == {DIR_RIGHT, DIR_DOWN, DIR_LEFT, DIR_UP}

\* ghosttype_t
GHOSTTYPE_BLINKY == 0
GHOSTTYPE_PINKY == 1
GHOSTTYPE_INKY == 2
GHOSTTYPE_CLYDE == 3
GhostTypes == 0 .. (NUM_GHOSTS - 1)

\* ghoststate_t
GHOSTSTATE_NONE == "NONE"
GHOSTSTATE_CHASE == "CHASE"
GHOSTSTATE_SCATTER == "SCATTER"
GHOSTSTATE_FRIGHTENED == "FRIGHTENED"
GHOSTSTATE_EYES == "EYES"
GHOSTSTATE_HOUSE == "HOUSE"
GHOSTSTATE_LEAVEHOUSE == "LEAVEHOUSE"
GHOSTSTATE_ENTERHOUSE == "ENTERHOUSE"

\* gamestate_t
GAMESTATE_INTRO == "INTRO"
GAMESTATE_GAME == "GAME"

\* freezetype_t: state.game.freeze is a bit mask, modelled as the set of its bits
FREEZETYPE_PRELUDE == "PRELUDE"
FREEZETYPE_READY == "READY"
FREEZETYPE_EAT_GHOST == "EAT_GHOST"
FREEZETYPE_DEAD == "DEAD"
FREEZETYPE_WON == "WON"

\* fruit_t
FRUIT_NONE == "NONE"

\* levelspec_table: bonus_fruit, bonus_score, fright_ticks
levelspec_table ==
    << [bonus_fruit |-> "CHERRIES",   bonus_score |-> 10,  fright_ticks |-> 6*60],
       [bonus_fruit |-> "STRAWBERRY", bonus_score |-> 30,  fright_ticks |-> 5*60],
       [bonus_fruit |-> "PEACH",      bonus_score |-> 50,  fright_ticks |-> 4*60],
       [bonus_fruit |-> "PEACH",      bonus_score |-> 50,  fright_ticks |-> 3*60],
       [bonus_fruit |-> "APPLE",      bonus_score |-> 70,  fright_ticks |-> 2*60],
       [bonus_fruit |-> "APPLE",      bonus_score |-> 70,  fright_ticks |-> 5*60],
       [bonus_fruit |-> "GRAPES",     bonus_score |-> 100, fright_ticks |-> 2*60],
       [bonus_fruit |-> "GRAPES",     bonus_score |-> 100, fright_ticks |-> 2*60],
       [bonus_fruit |-> "GALAXIAN",   bonus_score |-> 200, fright_ticks |-> 1*60],
       [bonus_fruit |-> "GALAXIAN",   bonus_score |-> 200, fright_ticks |-> 5*60],
       [bonus_fruit |-> "BELL",       bonus_score |-> 300, fright_ticks |-> 2*60],
       [bonus_fruit |-> "BELL",       bonus_score |-> 300, fright_ticks |-> 1*60],
       [bonus_fruit |-> "KEY",        bonus_score |-> 500, fright_ticks |-> 1*60],
       [bonus_fruit |-> "KEY",        bonus_score |-> 500, fright_ticks |-> 3*60],
       [bonus_fruit |-> "KEY",        bonus_score |-> 500, fright_ticks |-> 1*60],
       [bonus_fruit |-> "KEY",        bonus_score |-> 500, fright_ticks |-> 1*60],
       [bonus_fruit |-> "KEY",        bonus_score |-> 500, fright_ticks |-> 1],
       [bonus_fruit |-> "KEY",        bonus_score |-> 500, fright_ticks |-> 1*60],
       [bonus_fruit |-> "KEY",        bonus_score |-> 500, fright_ticks |-> 1],
       [bonus_fruit |-> "KEY",        bonus_score |-> 500, fright_ticks |-> 1],
       [bonus_fruit |-> "KEY",        bonus_score |-> 500, fright_ticks |-> 1] >>

\* get level spec for a game round
levelspec(round) ==
    IF round >= MAX_LEVELSPEC THEN levelspec_table[MAX_LEVELSPEC]
    ELSE levelspec_table[round + 1]

\* scatter target positions (in tile coords)
ghost_scatter_targets ==
    << [x |-> 25, y |-> 0], [x |-> 2, y |-> 0], [x |-> 27, y |-> 34], [x |-> 0, y |-> 34] >>

\* starting positions for ghosts (pixel coords)
ghost_starting_pos ==
    << [x |-> 14*8, y |-> 14*8 + 4], [x |-> 14*8, y |-> 17*8 + 4],
       [x |-> 12*8, y |-> 17*8 + 4], [x |-> 16*8, y |-> 17*8 + 4] >>

\* target positions for ghost entering the ghost house (pixel coords)
ghost_house_target_pos ==
    << [x |-> 14*8, y |-> 17*8 + 4], [x |-> 14*8, y |-> 17*8 + 4],
       [x |-> 12*8, y |-> 17*8 + 4], [x |-> 16*8, y |-> 17*8 + 4] >>

-----------------------------------------------------------------------------
(* Machine arithmetic.  The model checker's integers are 32 bits wide and  *)
(* signed, so a uint32_t value u is represented by u when u < 2^31 and by  *)
(* u - 2^32 otherwise (its two's complement reading): 0xFFFFFFFF is -1.    *)
(* The operators below are the unsigned operations on that representation. *)

\* unsigned comparisons of two uint32_t
ULt(a, b) == IF (a >= 0) = (b >= 0) THEN a < b ELSE a >= 0
UGe(a, b) == ~ULt(a, b)
UGt(a, b) == ULt(b, a)
ULe(a, b) == ~ULt(b, a)

\* a + b on uint32_t (modulo 2^32)
UAdd(a, b) ==
    IF (a >= 0) /\ (b >= 0)
    THEN (IF a > 2147483647 - b
          THEN (a - 2147483647 - 1) + (b - 2147483647 - 1)
          ELSE a + b)
    ELSE IF (a < 0) /\ (b < 0)
    THEN (IF a < (-2147483647 - 1) - b
          THEN (a + 2147483647 + 1) + (b + 2147483647 + 1)
          ELSE a + b)
    ELSE a + b

\* a - b on uint32_t (modulo 2^32)
USub(a, b) ==
    IF (a >= 0) = (b >= 0) THEN a - b
    ELSE IF a >= 0
    THEN (IF a > 2147483647 + b
          THEN (a - 2147483647 - 1) - (b + 2147483647 + 1)
          ELSE a - b)
    ELSE (IF a < (b - 2147483647) - 1
          THEN (a + 2147483647 + 1) - (b - 2147483647 - 1)
          ELSE a - b)

\* u % m on uint32_t, for a small positive m
UMod(v, m) ==
    IF v >= 0 THEN v % m
    ELSE ((((v + 2147483647) + 1) % m) + (2147483647 % m) + 1) % m

\* uint16_t, uint8_t results of small non-negative values
U16(n) == n % 65536
U8(n) == n % 256

\* C's % on int: the result has the sign of the dividend
CMod(a, b) == IF a >= 0 THEN a % b ELSE -((-a) % b)
\* C's / on int: truncation towards zero
CDiv(a, b) == IF a >= 0 THEN a \div b ELSE -((-a) \div b)

Abs(a) == IF a < 0 THEN -a ELSE a

\* the 32 bits of a uint32_t, bit 0 first
Bits32(v) ==
    LET low == IF v >= 0 THEN v ELSE (v + 2147483647) + 1
    IN  [i \in 0 .. 31 |-> IF i = 31 THEN (IF v < 0 THEN 1 ELSE 0)
                                     ELSE (low \div (2 ^ i)) % 2]

RECURSIVE SumBits(_, _, _)
\* the value of the bits b[lo .. hi]
SumBits(b, lo, hi) ==
    IF lo = hi THEN b[lo] * (2 ^ lo)
    ELSE SumBits(b, lo, (lo + hi) \div 2) + SumBits(b, ((lo + hi) \div 2) + 1, hi)

\* the uint32_t with the bits b
FromBits32(b) ==
    IF b[31] = 1 THEN (SumBits(b, 0, 30) - 2147483647) - 1 ELSE SumBits(b, 0, 30)

\* x ^ (x << n), x ^ (x >> n) on the bits of a uint32_t
XorShl(b, n) == [i \in 0 .. 31 |-> IF i >= n THEN (b[i] + b[i - n]) % 2 ELSE b[i]]
XorShr(b, n) == [i \in 0 .. 31 |-> IF i + n <= 31 THEN (b[i] + b[i + n]) % 2 ELSE b[i]]

\* xorshift random number generator: the next value of state.game.xorshift
xorshift32(x0) == FromBits32(XorShl(XorShr(XorShl(Bits32(x0), 13), 17), 5))

-----------------------------------------------------------------------------
(* Triggers.  A trigger_t is modelled by its tick value; the operations    *)
(* take the current tick (state.timing.tick) as their last argument.       *)

\* a start that arms the trigger one tick late
start_late(tick) == UAdd(tick, 2)

\* set time trigger to the next game tick: the new trigger value
start(tick) == UAdd(tick, 1)

\* set time trigger to a future tick: the new trigger value
start_after(ticks, tick) == UAdd(tick, ticks)

\* deactivate a time trigger: the new trigger value
disable == DISABLED_TICKS

\* return a disabled time trigger
disabled_timer == DISABLED_TICKS

\* check if a time trigger is triggered
now(t, tick) == t = tick

\* a since that does not count the tick of the trigger itself
since_strict(t, tick) == IF UGt(tick, t) THEN USub(tick, t) ELSE DISABLED_TICKS

\* return the number of ticks since a time trigger was triggered
since(t, tick) == IF UGe(tick, t) THEN USub(tick, t) ELSE DISABLED_TICKS

\* check if a time trigger is between begin and end tick
between(t, begin, end, tick) ==
    IF t # DISABLED_TICKS
    THEN LET ticks == since(t, tick) IN UGe(ticks, begin) /\ ULt(ticks, end)
    ELSE FALSE

\* check if a time trigger was triggered exactly N ticks ago
after_once(t, ticks, tick) == since(t, tick) = ticks

\* an after without the test for a disabled trigger
after_unchecked(t, ticks, tick) == UGe(since(t, tick), ticks)

\* check if a time trigger was triggered more than N ticks ago
after(t, ticks, tick) ==
    LET s == since(t, tick) IN IF s # DISABLED_TICKS THEN UGe(s, ticks) ELSE FALSE

\* same as between(t, 0, ticks)
before(t, ticks, tick) ==
    LET s == since(t, tick) IN IF s # DISABLED_TICKS THEN ULt(s, ticks) ELSE FALSE

-----------------------------------------------------------------------------
(* int2_t helpers and tile/pixel utilities.                                *)

i2(x, y) == [x |-> x, y |-> y]
add_i2(v0, v1) == [x |-> v0.x + v1.x, y |-> v0.y + v1.y]
sub_i2(v0, v1) == [x |-> v0.x - v1.x, y |-> v0.y - v1.y]
mul_i2(v, s) == [x |-> v.x * s, y |-> v.y * s]
squared_distance_i2(v0, v1) ==
    LET dx == v1.x - v0.x
        dy == v1.y - v0.y
    IN  dx * dx + dy * dy
equal_i2(v0, v1) == (v0.x = v1.x) /\ (v0.y = v1.y)
nearequal_i2(v0, v1, tolerance) ==
    (Abs(v1.x - v0.x) <= tolerance) /\ (Abs(v1.y - v0.y) <= tolerance)

\* compute the distance of a pixel coordinate to the next tile midpoint
dist_to_tile_mid(pos) ==
    i2((TILE_WIDTH \div 2) - CMod(pos.x, TILE_WIDTH),
       (TILE_HEIGHT \div 2) - CMod(pos.y, TILE_HEIGHT))

\* convert pixel position to tile position
pixel_to_tile_pos(pix_pos) ==
    i2(CDiv(pix_pos.x, TILE_WIDTH), CDiv(pix_pos.y, TILE_HEIGHT))

\* clamp tile pos to valid playfield coords
clamped_tile_pos(tile_pos) ==
    [x |-> IF tile_pos.x < 0 THEN 0
           ELSE IF tile_pos.x >= DISPLAY_TILES_X THEN DISPLAY_TILES_X - 1
           ELSE tile_pos.x,
     y |-> IF tile_pos.y < 3 THEN 3
           ELSE IF tile_pos.y >= (DISPLAY_TILES_Y - 2) THEN DISPLAY_TILES_Y - 3
           ELSE tile_pos.y]

\* convert a direction to a movement vector
dir_to_vec(dir) ==
    CASE dir = DIR_RIGHT -> i2(1, 0)
      [] dir = DIR_DOWN  -> i2(0, 1)
      [] dir = DIR_LEFT  -> i2(-1, 0)
      [] dir = DIR_UP    -> i2(0, -1)

\* return the reverse direction
reverse_dir(dir) ==
    CASE dir = DIR_RIGHT -> DIR_LEFT
      [] dir = DIR_DOWN  -> DIR_UP
      [] dir = DIR_LEFT  -> DIR_RIGHT
      [] OTHER           -> DIR_DOWN

\* check if a tile position is valid
valid_tile_pos(tile_pos) ==
    /\ tile_pos.x >= 0 /\ tile_pos.x < DISPLAY_TILES_X
    /\ tile_pos.y >= 0 /\ tile_pos.y < DISPLAY_TILES_Y

\* return tile code at tile position (video_ram[y][x]; rows and columns
\* are numbered from 0 in the program and from 1 in the model's tuples);
\* outside the grid the assertion of the program fails and no tile is read
tile_code_at(S, tile_pos) ==
    IF valid_tile_pos(tile_pos)
    THEN S.gfx.video_ram[tile_pos.y + 1][tile_pos.x + 1]
    ELSE TILE_SPACE

\* check if a tile position contains a blocking tile (walls and ghost house door)
is_blocking_tile(S, tile_pos) == tile_code_at(S, tile_pos) >= 192

\* check if a tile position contains a dot tile
is_dot(S, tile_pos) == tile_code_at(S, tile_pos) = TILE_DOT

\* check if a tile position contains a pill tile
is_pill(S, tile_pos) == tile_code_at(S, tile_pos) = TILE_PILL

\* check if a tile position is in the teleport tunnel
is_tunnel(tile_pos) == (tile_pos.y = 17) /\ ((tile_pos.x <= 5) \/ (tile_pos.x >= 22))

\* check if a position is in the ghost's red zone, where upward movement is forbidden
is_redzone(tile_pos) ==
    (tile_pos.x >= 11) /\ (tile_pos.x <= 16) /\ ((tile_pos.y = 14) \/ (tile_pos.y = 26))

\* put a tile into the tile buffer (outside the grid the assertion of the
\* program fails and no tile is written)
vid_tile(S, tile_pos, tile_code) ==
    IF valid_tile_pos(tile_pos)
    THEN [S EXCEPT !.gfx.video_ram[tile_pos.y + 1][tile_pos.x + 1] = tile_code]
    ELSE S

-----------------------------------------------------------------------------
(* The playfield and the tile buffer.  video_ram is a tuple of 36 rows of  *)
(* 28 tile codes.  Rows 0..2 and 34..35 (score, lives, fruit list) are     *)
(* never read by the simulation; the writes to them are not modelled.      *)

\* the ASCII map of game_init_playfield, rows 3..33
tiles ==
  << <<"0","U","U","U","U","U","U","U","U","U","U","U","U","4","5","U","U","U","U","U","U","U","U","U","U","U","U","1">>,
     <<"L",".",".",".",".",".",".",".",".",".",".",".",".","r","l",".",".",".",".",".",".",".",".",".",".",".",".","R">>,
     <<"L",".","e","b","b","f",".","e","b","b","b","f",".","r","l",".","e","b","b","b","f",".","e","b","b","f",".","R">>,
     <<"L","P","r"," "," ","l",".","r"," "," "," ","l",".","r","l",".","r"," "," "," ","l",".","r"," "," ","l","P","R">>,
     <<"L",".","g","u","u","h",".","g","u","u","u","h",".","g","h",".","g","u","u","u","h",".","g","u","u","h",".","R">>,
     <<"L",".",".",".",".",".",".",".",".",".",".",".",".",".",".",".",".",".",".",".",".",".",".",".",".",".",".","R">>,
     <<"L",".","e","b","b","f",".","e","f",".","e","b","b","b","b","b","b","f",".","e","f",".","e","b","b","f",".","R">>,
     <<"L",".","g","u","u","h",".","r","l",".","g","u","u","y","x","u","u","h",".","r","l",".","g","u","u","h",".","R">>,
     <<"L",".",".",".",".",".",".","r","l",".",".",".",".","r","l",".",".",".",".","r","l",".",".",".",".",".",".","R">>,
     <<"2","B","B","B","B","f",".","r","z","b","b","f"," ","r","l"," ","e","b","b","w","l",".","e","B","B","B","B","3">>,
     <<" "," "," "," "," ","L",".","r","x","u","u","h"," ","g","h"," ","g","u","u","y","l",".","R"," "," "," "," "," ">>,
     <<" "," "," "," "," ","L",".","r","l"," "," "," "," "," "," "," "," "," "," ","r","l",".","R"," "," "," "," "," ">>,
     <<" "," "," "," "," ","L",".","r","l"," ","m","j","s","-","-","t","j","n"," ","r","l",".","R"," "," "," "," "," ">>,
     <<"U","U","U","U","U","h",".","g","h"," ","i"," "," "," "," "," "," ","q"," ","g","h",".","g","U","U","U","U","U">>,
     <<" "," "," "," "," "," ","."," "," "," ","i"," "," "," "," "," "," ","q"," "," "," ","."," "," "," "," "," "," ">>,
     <<"B","B","B","B","B","f",".","e","f"," ","i"," "," "," "," "," "," ","q"," ","e","f",".","e","B","B","B","B","B">>,
     <<" "," "," "," "," ","L",".","r","l"," ","o","k","k","k","k","k","k","p"," ","r","l",".","R"," "," "," "," "," ">>,
     <<" "," "," "," "," ","L",".","r","l"," "," "," "," "," "," "," "," "," "," ","r","l",".","R"," "," "," "," "," ">>,
     <<" "," "," "," "," ","L",".","r","l"," ","e","b","b","b","b","b","b","f"," ","r","l",".","R"," "," "," "," "," ">>,
     <<"0","U","U","U","U","h",".","g","h"," ","g","u","u","y","x","u","u","h"," ","g","h",".","g","U","U","U","U","1">>,
     <<"L",".",".",".",".",".",".",".",".",".",".",".",".","r","l",".",".",".",".",".",".",".",".",".",".",".",".","R">>,
     <<"L",".","e","b","b","f",".","e","b","b","b","f",".","r","l",".","e","b","b","b","f",".","e","b","b","f",".","R">>,
     <<"L",".","g","u","y","l",".","g","u","u","u","h",".","g","h",".","g","u","u","u","h",".","r","x","u","h",".","R">>,
     <<"L","P",".",".","r","l",".",".",".",".",".",".","."," "," ",".",".",".",".",".",".",".","r","l",".",".","P","R">>,
     <<"6","b","f",".","r","l",".","e","f",".","e","b","b","b","b","b","b","f",".","e","f",".","r","l",".","e","b","8">>,
     <<"7","u","h",".","g","h",".","r","l",".","g","u","u","y","x","u","u","h",".","r","l",".","g","h",".","g","u","9">>,
     <<"L",".",".",".",".",".",".","r","l",".",".",".",".","r","l",".",".",".",".","r","l",".",".",".",".",".",".","R">>,
     <<"L",".","e","b","b","b","b","w","z","b","b","f",".","r","l",".","e","b","b","w","z","b","b","b","b","f",".","R">>,
     <<"L",".","g","u","u","u","u","u","u","u","u","h",".","g","h",".","g","u","u","u","u","u","u","u","u","h",".","R">>,
     <<"L",".",".",".",".",".",".",".",".",".",".",".",".",".",".",".",".",".",".",".",".",".",".",".",".",".",".","R">>,
     <<"2","B","B","B","B","B","B","B","B","B","B","B","B","B","B","B","B","B","B","B","B","B","B","B","B","B","B","3">> >>

\* the decoding table t[] of game_init_playfield: characters that are not
\* listed decode to a dot
TileOfChar(c) ==
    CASE c = " " -> 64  [] c = "0" -> 209 [] c = "1" -> 208 [] c = "2" -> 213
      [] c = "3" -> 212 [] c = "4" -> 251 [] c = "5" -> 250 [] c = "6" -> 215
      [] c = "7" -> 217 [] c = "8" -> 214 [] c = "9" -> 216 [] c = "U" -> 219
      [] c = "L" -> 211 [] c = "R" -> 210 [] c = "B" -> 220 [] c = "b" -> 223
      [] c = "e" -> 231 [] c = "f" -> 230 [] c = "g" -> 235 [] c = "h" -> 234
      [] c = "l" -> 232 [] c = "r" -> 233 [] c = "u" -> 229 [] c = "w" -> 245
      [] c = "x" -> 242 [] c = "y" -> 243 [] c = "z" -> 244 [] c = "m" -> 237
      [] c = "n" -> 236 [] c = "o" -> 239 [] c = "p" -> 238 [] c = "j" -> 221
      [] c = "i" -> 210 [] c = "k" -> 219 [] c = "q" -> 211 [] c = "s" -> 241
      [] c = "t" -> 240 [] c = "-" -> TILE_DOOR [] c = "P" -> TILE_PILL
      [] OTHER -> TILE_DOT

\* the decoded playfield, rows 3..33 (index 1..31)
playfield_codes == [y \in 1 .. 31 |-> [x \in 1 .. 28 |-> TileOfChar(tiles[y][x])]]

\* initialize the playfield tiles
game_init_playfield(S) ==
    [S EXCEPT !.gfx.video_ram =
        [y \in 1 .. DISPLAY_TILES_Y |->
            IF (y - 1 >= 3) /\ (y - 1 <= 33) THEN playfield_codes[y - 3] ELSE @[y]]]

\* clear tile and color buffer
vid_clear(S, tile_code) ==
    [S EXCEPT !.gfx.video_ram =
        [y \in 1 .. DISPLAY_TILES_Y |-> [x \in 1 .. DISPLAY_TILES_X |-> tile_code]]]

\* translate ASCII char into "NAMCO char" (chars are given by their ASCII code)
conv_char(c) ==
    CASE c = 32 -> 64
      [] c = 47 -> 58
      [] c = 45 -> 59
      [] c = 34 -> 38
      [] c = 33 -> 91
      [] OTHER -> c

\* put colored text into the tile+color buffers; text is the tuple of the
\* ASCII codes of its characters, written until the right border is reached
vid_color_text(S, tile_pos, text) ==
    [S EXCEPT !.gfx.video_ram[tile_pos.y + 1] =
        [x \in 1 .. DISPLAY_TILES_X |->
            IF (x - 1 >= tile_pos.x) /\ (x - 1 < tile_pos.x + Len(text))
            THEN conv_char(text[x - tile_pos.x]) ELSE @[x]]]

TEXT_PLAYER_ONE == <<80, 76, 65, 89, 69, 82, 32, 79, 78, 69>>
TEXT_READY == <<82, 69, 65, 68, 89, 33>>
TEXT_GAME_OVER == <<71, 65, 77, 69, 32, 32, 79, 86, 69, 82>>
TEXT_BLANK10 == <<32, 32, 32, 32, 32, 32, 32, 32, 32, 32>>
TEXT_BLANK6 == <<32, 32, 32, 32, 32, 32>>

\* the tiles for displaying the bonus-fruit-score
fruit_score_tiles(fruit_type) ==
    CASE fruit_type = "NONE"       -> <<64, 64, 64, 64>>
      [] fruit_type = "CHERRIES"   -> <<64, 129, 133, 64>>
      [] fruit_type = "STRAWBERRY" -> <<64, 130, 133, 64>>
      [] fruit_type = "PEACH"      -> <<64, 131, 133, 64>>
      [] fruit_type = "APPLE"      -> <<64, 132, 133, 64>>
      [] fruit_type = "GRAPES"     -> <<64, 134, 141, 142>>
      [] fruit_type = "GALAXIAN"   -> <<135, 136, 141, 142>>
      [] fruit_type = "BELL"       -> <<137, 138, 141, 142>>
      [] fruit_type = "KEY"        -> <<139, 140, 141, 142>>

\* draw the fruit bonus score tiles (when Pacman has eaten the bonus fruit)
vid_fruit_score(S, fruit_type) ==
    [S EXCEPT !.gfx.video_ram[20 + 1] =
        [x \in 1 .. DISPLAY_TILES_X |->
            IF (x - 1 >= 12) /\ (x - 1 < 16)
            THEN fruit_score_tiles(fruit_type)[x - 12] ELSE @[x]]]

-----------------------------------------------------------------------------
(* Input.                                                                  *)

InputZero ==
    [enabled |-> FALSE, up |-> FALSE, down |-> FALSE, left |-> FALSE,
     right |-> FALSE, esc |-> FALSE, anykey |-> FALSE]

\* clear input state and disable input
input_disable(S) == [S EXCEPT !.input1 = InputZero, !.input2 = InputZero]

\* enable input again
input_enable(S) == [S EXCEPT !.input1.enabled = TRUE, !.input2.enabled = TRUE]

\* get the current input as dir_t
input_dir(S, default_dir) ==
    IF S.input1.up THEN DIR_UP
    ELSE IF S.input1.down THEN DIR_DOWN
    ELSE IF S.input1.right THEN DIR_RIGHT
    ELSE IF S.input1.left THEN DIR_LEFT
    ELSE IF S.input2.up THEN DIR_UP
    ELSE IF S.input2.down THEN DIR_DOWN
    ELSE IF S.input2.right THEN DIR_RIGHT
    ELSE IF S.input2.left THEN DIR_LEFT
    ELSE default_dir

\* the keys the event callback tells apart; every other key is "OTHER"
Keys == {"UP", "DOWN", "LEFT", "RIGHT", "ESCAPE", "W", "S", "A", "D", "OTHER"}

\* the event callback for a key-down (btn_down) or key-up event of key
input(S, key, btn_down) ==
    IF ~S.input1.enabled THEN S
    ELSE CASE key = "UP" ->
                [S EXCEPT !.input1.up = btn_down, !.input1.anykey = btn_down, !.game.player2 = FALSE]
           [] key = "DOWN" ->
                [S EXCEPT !.input1.down = btn_down, !.input1.anykey = btn_down, !.game.player2 = FALSE]
           [] key = "LEFT" ->
                [S EXCEPT !.input1.left = btn_down, !.input1.anykey = btn_down, !.game.player2 = FALSE]
           [] key = "RIGHT" ->
                [S EXCEPT !.input1.right = btn_down, !.input1.anykey = btn_down, !.game.player2 = FALSE]
           [] key = "ESCAPE" ->
                [S EXCEPT !.input1.esc = btn_down, !.input1.anykey = btn_down]
           [] key = "W" ->
                [S EXCEPT !.input2.up = btn_down, !.input2.anykey = btn_down, !.game.player2 = TRUE]
           [] key = "S" ->
                [S EXCEPT !.input2.down = btn_down, !.input2.anykey = btn_down, !.game.player2 = TRUE]
           [] key = "A" ->
                [S EXCEPT !.input2.left = btn_down, !.input2.anykey = btn_down, !.game.player2 = TRUE]
           [] key = "D" ->
                [S EXCEPT !.input2.right = btn_down, !.input2.anykey = btn_down, !.game.player2 = TRUE]
           [] OTHER ->
                [S EXCEPT !.input1.anykey = btn_down, !.input2.anykey = btn_down]

-----------------------------------------------------------------------------
(* Movement.                                                               *)

\* can_move with the blocking check made on the actor's own tile (dir_vec
\* is not added to tile_pos)
can_move_here(S, pos, wanted_dir, allow_cornering) ==
    LET dir_vec == dir_to_vec(wanted_dir)
        dist_mid == dist_to_tile_mid(pos)
        move_dist_mid == IF dir_vec.y # 0 THEN dist_mid.y ELSE dist_mid.x
        perp_dist_mid == IF dir_vec.y # 0 THEN dist_mid.x ELSE dist_mid.y
        check_pos == clamped_tile_pos(pixel_to_tile_pos(pos))
        is_blocked == is_blocking_tile(S, check_pos)
    IN  ~ (((~allow_cornering) /\ (0 # perp_dist_mid)) \/ (is_blocked /\ (0 = move_dist_mid)))

\* test if movement from a pixel position in a wanted direction is possible,
\* allow_cornering is Pacman's feature to take a diagonal shortcut around corners
can_move(S, pos, wanted_dir, allow_cornering) ==
    LET dir_vec == dir_to_vec(wanted_dir)
        dist_mid == dist_to_tile_mid(pos)
        move_dist_mid == IF dir_vec.y # 0 THEN dist_mid.y ELSE dist_mid.x
        perp_dist_mid == IF dir_vec.y # 0 THEN dist_mid.x ELSE dist_mid.y
        tile_pos == pixel_to_tile_pos(pos)
        check_pos == clamped_tile_pos(add_i2(tile_pos, dir_vec))
        is_blocked == is_blocking_tile(S, check_pos)
    IN  ~ (((~allow_cornering) /\ (0 # perp_dist_mid)) \/ (is_blocked /\ (0 = move_dist_mid)))

\* the drag of move(): if cornering is allowed, drag the position p1 (the
\* position after the step along dir_vec) towards the center-line
drag(p1, dir_vec, dist_mid, allow_cornering) ==
    IF ~allow_cornering THEN p1
    ELSE IF dir_vec.x # 0
         THEN (IF dist_mid.y < 0 THEN [p1 EXCEPT !.y = @ - 1]
               ELSE IF dist_mid.y > 0 THEN [p1 EXCEPT !.y = @ + 1]
               ELSE p1)
         ELSE IF dir_vec.y # 0
         THEN (IF dist_mid.x < 0 THEN [p1 EXCEPT !.x = @ - 1]
               ELSE IF dist_mid.x > 0 THEN [p1 EXCEPT !.x = @ + 1]
               ELSE p1)
         ELSE p1

\* the position of move() before the wrap: the step along dir and the drag
move_dragged(pos, dir, allow_cornering) ==
    drag(add_i2(pos, dir_to_vec(dir)), dir_to_vec(dir),
         dist_to_tile_mid(add_i2(pos, dir_to_vec(dir))), allow_cornering)

\* wrap_x clamping x to the display instead of wrapping it around
wrap_x_clamp(p) ==
    IF p.x < 0 THEN [p EXCEPT !.x = 0]
    ELSE IF p.x >= DISPLAY_PIXELS_X THEN [p EXCEPT !.x = DISPLAY_PIXELS_X - 1]
    ELSE p

\* wrap_x wrapping around one pixel too late at the right border
wrap_x_late(p) ==
    IF p.x < 0 THEN [p EXCEPT !.x = DISPLAY_PIXELS_X - 1]
    ELSE IF p.x > DISPLAY_PIXELS_X THEN [p EXCEPT !.x = 0]
    ELSE p

\* wrap x-position around (only possible in the teleport-tunnel)
wrap_x(p) ==
    IF p.x < 0 THEN [p EXCEPT !.x = DISPLAY_PIXELS_X - 1]
    ELSE IF p.x >= DISPLAY_PIXELS_X THEN [p EXCEPT !.x = 0]
    ELSE p

\* compute a new pixel position along a direction (without blocking check!)
move(pos, dir, allow_cornering) == wrap_x(move_dragged(pos, dir, allow_cornering))

-----------------------------------------------------------------------------
(* Game setup.                                                             *)

\* no fright window is being observed (see the observations below)
NoFright == [T |-> -1, F |-> 0]

\* no death of Pacman is being observed
NoDeath == [tick |-> -1, num_lives |-> 0]

\* disable all game loop timers
game_disable_timers(S) ==
    [S EXCEPT !.game.round_won = disable,
              !.game.game_over = disable,
              !.game.dot_eaten = disable,
              !.game.pill_eaten = disable,
              !.game.ghost_eaten = disable,
              !.game.pacman_eaten = disable,
              !.game.fruit_eaten = disable,
              !.game.force_leave_house = disable,
              !.game.fruit_active = disable]

\* game_init: the members of state.game that are reset
game_init_state(S) ==
    [S EXCEPT !.game.round = DBG_START_ROUND,
              !.game.freeze = {FREEZETYPE_PRELUDE},
              !.game.num_lives = NUM_LIVES,
              !.game.global_dot_counter_active = FALSE,
              !.game.global_dot_counter = 0,
              !.game.num_dots_eaten = 0,
              !.game.score = 0,
              !.obs.game_init = TRUE,
              !.obs.over_at = -1,
              !.obs.death = NoDeath,
              !.obs.fright = [g \in 1 .. NUM_GHOSTS |-> NoFright],
              !.obs.fright_nr = [g \in 1 .. NUM_GHOSTS |-> NoFright]]

\* one-time init at start of game state
game_init(S) ==
    vid_color_text(
        vid_color_text(
            game_init_playfield(
                vid_clear(game_init_state(game_disable_timers(input_enable(S))), TILE_SPACE)),
            i2(9, 14), TEXT_PLAYER_ONE),
        i2(11, 20), TEXT_READY)

\* the ghost_t compound literal with the .state member left out (zeroed:
\* GHOSTSTATE_NONE)
InitialGhost_nostate(type, dir, state, dot_limit) ==
    [actor |-> [dir |-> dir, pos |-> ghost_starting_pos[type + 1]],
     type |-> type,
     next_dir |-> dir,
     target_pos |-> i2(0, 0),
     state |-> GHOSTSTATE_NONE,
     frightened |-> disabled_timer,
     eaten |-> disabled_timer,
     dot_counter |-> 0,
     dot_limit |-> dot_limit]

\* the ghost_t compound literals of game_round_init: members that are not
\* named (target_pos) are zeroed
InitialGhost(type, dir, state, dot_limit) ==
    [actor |-> [dir |-> dir, pos |-> ghost_starting_pos[type + 1]],
     type |-> type,
     next_dir |-> dir,
     target_pos |-> i2(0, 0),
     state |-> state,
     frightened |-> disabled_timer,
     eaten |-> disabled_timer,
     dot_counter |-> 0,
     dot_limit |-> dot_limit]

\* game_round_init without the test num_lives != NUM_LIVES: the global dot
\* counter is switched on in the first round of a game too
round_init_counters_always(S) ==
    IF S.game.num_dots_eaten = NUM_DOTS
    THEN game_init_playfield(
             [S EXCEPT !.game.round = U8(@ + 1),
                       !.game.num_dots_eaten = 0,
                       !.game.global_dot_counter_active = FALSE])
    ELSE [S EXCEPT !.game.global_dot_counter_active = TRUE,
                   !.game.global_dot_counter = 0,
                   !.game.num_lives = @ - 1]

\* game_round_init with the playfield drawn again for a new life too
round_init_counters_redraw(S) ==
    IF S.game.num_dots_eaten = NUM_DOTS
    THEN game_init_playfield(
             [S EXCEPT !.game.round = U8(@ + 1),
                       !.game.num_dots_eaten = 0,
                       !.game.global_dot_counter_active = FALSE])
    ELSE IF S.game.num_lives # NUM_LIVES
    THEN game_init_playfield(
             [S EXCEPT !.game.global_dot_counter_active = TRUE,
                       !.game.global_dot_counter = 0,
                       !.game.num_lives = @ - 1])
    ELSE [S EXCEPT !.game.num_lives = @ - 1]

\* game_round_init: a new round after a won round, or a new life
round_init_counters(S) ==
    IF S.game.num_dots_eaten = NUM_DOTS
    THEN game_init_playfield(
             [S EXCEPT !.game.round = U8(@ + 1),
                       !.game.num_dots_eaten = 0,
                       !.game.global_dot_counter_active = FALSE])
    ELSE IF S.game.num_lives # NUM_LIVES
    THEN [S EXCEPT !.game.global_dot_counter_active = TRUE,
                   !.game.global_dot_counter = 0,
                   !.game.num_lives = @ - 1]
    ELSE [S EXCEPT !.game.num_lives = @ - 1]

\* game_round_init: fruit, freeze, seed, ghosts-eaten counter and timers
round_init_state(S) ==
    game_disable_timers(
        [S EXCEPT !.game.active_fruit = FRUIT_NONE,
                  !.game.freeze = {FREEZETYPE_READY},
                  !.game.xorshift = 305419896,
                  !.game.num_ghosts_eaten = 0,
                  !.obs.since_reset = {},
                  !.obs.round_init = TRUE,
                  !.obs.lost_life = FALSE,
                  !.obs.death = NoDeath,
                  !.obs.fright = [g \in 1 .. NUM_GHOSTS |-> NoFright],
                  !.obs.fright_nr = [g \in 1 .. NUM_GHOSTS |-> NoFright]])

\* game_round_init: the force-house timer and the actors
round_init_actors(S) ==
    [S EXCEPT !.game.force_leave_house = start(S.timing.tick),
              !.game.pacman1 = [actor |-> [dir |-> DIR_LEFT, pos |-> i2(14*8, 26*8 + 4)]],
              !.game.pacman2 = [actor |-> [dir |-> DIR_RIGHT, pos |-> i2(14*8, 26*8 + 4)]],
              !.game.ghost =
                  << InitialGhost(GHOSTTYPE_BLINKY, DIR_LEFT, GHOSTSTATE_SCATTER, 0),
                     InitialGhost(GHOSTTYPE_PINKY, DIR_DOWN, GHOSTSTATE_HOUSE, 0),
                     InitialGhost(GHOSTTYPE_INKY, DIR_UP, GHOSTSTATE_HOUSE, 30),
                     InitialGhost(GHOSTTYPE_CLYDE, DIR_UP, GHOSTSTATE_HOUSE, 60) >>]

\* setup state at start of a game round
game_round_init(S) ==
    round_init_actors(
        vid_color_text(
            round_init_state(round_init_counters(vid_color_text(S, i2(9, 14), TEXT_BLANK10))),
            i2(11, 20), TEXT_READY))

\* update dynamic background tiles: only the fruit-score tiles are in the playfield
game_update_tiles(S) ==
    IF after_once(S.game.fruit_eaten, 2*60, S.timing.tick)
    THEN vid_fruit_score(S, FRUIT_NONE)
    ELSE S

-----------------------------------------------------------------------------
(* Ghost AI.  Ghosts are addressed by their index g in 0..3               *)
(* (state.game.ghost[g] is S.game.ghost[g + 1]).                           *)

\* check whether Pacman should move in this tick
game_pacman_should_move(S) ==
    IF now(S.game.dot_eaten, S.timing.tick) THEN FALSE
    ELSE IF ULt(since(S.game.pill_eaten, S.timing.tick), 3) THEN FALSE
    ELSE 0 # UMod(S.timing.tick, 8)

\* return number of pixels a ghost should move this tick
game_ghost_speed(S, g) ==
    LET ghost == S.game.ghost[g + 1]
        tick == S.timing.tick
    IN  CASE ghost.state \in {GHOSTSTATE_HOUSE, GHOSTSTATE_LEAVEHOUSE} -> UMod(tick, 2)
          [] ghost.state = GHOSTSTATE_FRIGHTENED -> UMod(tick, 2)
          [] ghost.state \in {GHOSTSTATE_EYES, GHOSTSTATE_ENTERHOUSE} ->
                (IF UMod(tick, 2) # 0 THEN 1 ELSE 2)
          [] OTHER ->
                IF is_tunnel(pixel_to_tile_pos(ghost.actor.pos))
                THEN (IF UMod(UAdd(tick, tick), 4) # 0 THEN 1 ELSE 0)
                ELSE (IF UMod(tick, 7) # 0 THEN 1 ELSE 0)

\* the phase clock with the third scatter phase as long as the first two
\* (7 seconds for 5)
game_scatter_chase_phase_long(S) ==
    LET t == since(S.game.round_started, S.timing.tick)
    IN  IF ULt(t, 7*60) THEN GHOSTSTATE_SCATTER
        ELSE IF ULt(t, 27*60) THEN GHOSTSTATE_CHASE
        ELSE IF ULt(t, 34*60) THEN GHOSTSTATE_SCATTER
        ELSE IF ULt(t, 54*60) THEN GHOSTSTATE_CHASE
        ELSE IF ULt(t, 61*60) THEN GHOSTSTATE_SCATTER
        ELSE IF ULt(t, 79*60) THEN GHOSTSTATE_CHASE
        ELSE IF ULt(t, 84*60) THEN GHOSTSTATE_SCATTER
        ELSE GHOSTSTATE_CHASE

\* return the current global scatter or chase phase
game_scatter_chase_phase(S) ==
    LET t == since(S.game.round_started, S.timing.tick)
    IN  IF ULt(t, 7*60) THEN GHOSTSTATE_SCATTER
        ELSE IF ULt(t, 27*60) THEN GHOSTSTATE_CHASE
        ELSE IF ULt(t, 34*60) THEN GHOSTSTATE_SCATTER
        ELSE IF ULt(t, 54*60) THEN GHOSTSTATE_CHASE
        ELSE IF ULt(t, 59*60) THEN GHOSTSTATE_SCATTER
        ELSE IF ULt(t, 79*60) THEN GHOSTSTATE_CHASE
        ELSE IF ULt(t, 84*60) THEN GHOSTSTATE_SCATTER
        ELSE GHOSTSTATE_CHASE

\* the first switch with a force-leave timer that is not armed again
ghost_new_state_pulse(S, g) ==
    LET ghost == S.game.ghost[g + 1]
        tick == S.timing.tick
        keep == [new_state |-> ghost.state, S |-> S]
    IN  CASE ghost.state = GHOSTSTATE_EYES ->
                IF nearequal_i2(ghost.actor.pos, i2(ANTEPORTAS_X, ANTEPORTAS_Y), 1)
                THEN [keep EXCEPT !.new_state = GHOSTSTATE_ENTERHOUSE] ELSE keep
          [] ghost.state = GHOSTSTATE_ENTERHOUSE ->
                IF nearequal_i2(ghost.actor.pos, ghost_house_target_pos[ghost.type + 1], 1)
                THEN [keep EXCEPT !.new_state = GHOSTSTATE_LEAVEHOUSE] ELSE keep
          [] ghost.state = GHOSTSTATE_HOUSE ->
                IF after_once(S.game.force_leave_house, 4*60, tick)
                THEN [keep EXCEPT !.new_state = GHOSTSTATE_LEAVEHOUSE]
                ELSE IF S.game.global_dot_counter_active
                THEN (IF (ghost.type = GHOSTTYPE_PINKY) /\ (S.game.global_dot_counter = 7)
                      THEN [keep EXCEPT !.new_state = GHOSTSTATE_LEAVEHOUSE]
                      ELSE IF (ghost.type = GHOSTTYPE_INKY) /\ (S.game.global_dot_counter = 17)
                      THEN [keep EXCEPT !.new_state = GHOSTSTATE_LEAVEHOUSE]
                      ELSE IF (ghost.type = GHOSTTYPE_CLYDE) /\ (S.game.global_dot_counter = 32)
                      THEN [new_state |-> GHOSTSTATE_LEAVEHOUSE,
                            S |-> [S EXCEPT !.game.global_dot_counter_active = FALSE]]
                      ELSE keep)
                ELSE IF ghost.dot_counter = ghost.dot_limit
                THEN [keep EXCEPT !.new_state = GHOSTSTATE_LEAVEHOUSE]
                ELSE keep
          [] ghost.state = GHOSTSTATE_LEAVEHOUSE ->
                IF ghost.actor.pos.y = ANTEPORTAS_Y
                THEN [keep EXCEPT !.new_state = GHOSTSTATE_SCATTER] ELSE keep
          [] OTHER ->
                IF before(ghost.frightened, levelspec(S.game.round).fright_ticks, tick)
                THEN [keep EXCEPT !.new_state = GHOSTSTATE_FRIGHTENED]
                ELSE [keep EXCEPT !.new_state = game_scatter_chase_phase(S)]

\* ghost_new_state with the eyes waiting for the position inside the house:
\* the door keeps them from reaching it
ghost_new_state_inside(S, g) ==
    LET ghost == S.game.ghost[g + 1]
        tick == S.timing.tick
        keep == [new_state |-> ghost.state, S |-> S]
    IN  CASE ghost.state = GHOSTSTATE_EYES ->
                IF nearequal_i2(ghost.actor.pos, ghost_house_target_pos[ghost.type + 1], 1)
                THEN [keep EXCEPT !.new_state = GHOSTSTATE_ENTERHOUSE] ELSE keep
          [] ghost.state = GHOSTSTATE_ENTERHOUSE ->
                IF nearequal_i2(ghost.actor.pos, ghost_house_target_pos[ghost.type + 1], 1)
                THEN [keep EXCEPT !.new_state = GHOSTSTATE_LEAVEHOUSE] ELSE keep
          [] ghost.state = GHOSTSTATE_HOUSE ->
                IF after_once(S.game.force_leave_house, 4*60, tick)
                THEN [new_state |-> GHOSTSTATE_LEAVEHOUSE,
                      S |-> [S EXCEPT !.game.force_leave_house = start(tick)]]
                ELSE IF S.game.global_dot_counter_active
                THEN (IF (ghost.type = GHOSTTYPE_PINKY) /\ (S.game.global_dot_counter = 7)
                      THEN [keep EXCEPT !.new_state = GHOSTSTATE_LEAVEHOUSE]
                      ELSE IF (ghost.type = GHOSTTYPE_INKY) /\ (S.game.global_dot_counter = 17)
                      THEN [keep EXCEPT !.new_state = GHOSTSTATE_LEAVEHOUSE]
                      ELSE IF (ghost.type = GHOSTTYPE_CLYDE) /\ (S.game.global_dot_counter = 32)
                      THEN [new_state |-> GHOSTSTATE_LEAVEHOUSE,
                            S |-> [S EXCEPT !.game.global_dot_counter_active = FALSE]]
                      ELSE keep)
                ELSE IF ghost.dot_counter = ghost.dot_limit
                THEN [keep EXCEPT !.new_state = GHOSTSTATE_LEAVEHOUSE]
                ELSE keep
          [] ghost.state = GHOSTSTATE_LEAVEHOUSE ->
                IF ghost.actor.pos.y = ANTEPORTAS_Y
                THEN [keep EXCEPT !.new_state = GHOSTSTATE_SCATTER] ELSE keep
          [] OTHER ->
                IF before(ghost.frightened, levelspec(S.game.round).fright_ticks, tick)
                THEN [keep EXCEPT !.new_state = GHOSTSTATE_FRIGHTENED]
                ELSE [keep EXCEPT !.new_state = game_scatter_chase_phase(S)]

\* the first switch of game_update_ghost_state: the new state of ghost g and
\* the side effects of the HOUSE case on the game state
ghost_new_state(S, g) ==
    LET ghost == S.game.ghost[g + 1]
        tick == S.timing.tick
        keep == [new_state |-> ghost.state, S |-> S]
    IN  CASE ghost.state = GHOSTSTATE_EYES ->
                IF nearequal_i2(ghost.actor.pos, i2(ANTEPORTAS_X, ANTEPORTAS_Y), 1)
                THEN [keep EXCEPT !.new_state = GHOSTSTATE_ENTERHOUSE] ELSE keep
          [] ghost.state = GHOSTSTATE_ENTERHOUSE ->
                IF nearequal_i2(ghost.actor.pos, ghost_house_target_pos[ghost.type + 1], 1)
                THEN [keep EXCEPT !.new_state = GHOSTSTATE_LEAVEHOUSE] ELSE keep
          [] ghost.state = GHOSTSTATE_HOUSE ->
                IF after_once(S.game.force_leave_house, 4*60, tick)
                THEN [new_state |-> GHOSTSTATE_LEAVEHOUSE,
                      S |-> [S EXCEPT !.game.force_leave_house = start(tick)]]
                ELSE IF S.game.global_dot_counter_active
                THEN (IF (ghost.type = GHOSTTYPE_PINKY) /\ (S.game.global_dot_counter = 7)
                      THEN [keep EXCEPT !.new_state = GHOSTSTATE_LEAVEHOUSE]
                      ELSE IF (ghost.type = GHOSTTYPE_INKY) /\ (S.game.global_dot_counter = 17)
                      THEN [keep EXCEPT !.new_state = GHOSTSTATE_LEAVEHOUSE]
                      ELSE IF (ghost.type = GHOSTTYPE_CLYDE) /\ (S.game.global_dot_counter = 32)
                      THEN [new_state |-> GHOSTSTATE_LEAVEHOUSE,
                            S |-> [S EXCEPT !.game.global_dot_counter_active = FALSE]]
                      ELSE keep)
                ELSE IF ghost.dot_counter = ghost.dot_limit
                THEN [keep EXCEPT !.new_state = GHOSTSTATE_LEAVEHOUSE]
                ELSE keep
          [] ghost.state = GHOSTSTATE_LEAVEHOUSE ->
                IF ghost.actor.pos.y = ANTEPORTAS_Y
                THEN [keep EXCEPT !.new_state = GHOSTSTATE_SCATTER] ELSE keep
          [] OTHER ->
                IF before(ghost.frightened, levelspec(S.game.round).fright_ticks, tick)
                THEN [keep EXCEPT !.new_state = GHOSTSTATE_FRIGHTENED]
                ELSE [keep EXCEPT !.new_state = game_scatter_chase_phase(S)]

\* the transitions with a ghost that leaves LEAVEHOUSE looking upwards still
ghost_transition_up(S, g, new_state) ==
    LET ghost == S.game.ghost[g + 1]
    IN  IF new_state = ghost.state THEN S
        ELSE LET gh == CASE ghost.state = GHOSTSTATE_LEAVEHOUSE ->
                              [ghost EXCEPT !.next_dir = DIR_LEFT]
                         [] ghost.state = GHOSTSTATE_ENTERHOUSE ->
                              [ghost EXCEPT !.frightened = disable]
                         [] ghost.state = GHOSTSTATE_FRIGHTENED -> ghost
                         [] ghost.state \in {GHOSTSTATE_SCATTER, GHOSTSTATE_CHASE} ->
                              [ghost EXCEPT !.next_dir = reverse_dir(ghost.actor.dir)]
                         [] OTHER -> ghost
             IN  [S EXCEPT !.game.ghost[g + 1] = [gh EXCEPT !.state = new_state]]

\* the transitions without the disable() of the case ENTERHOUSE
ghost_transition_armed(S, g, new_state) ==
    LET ghost == S.game.ghost[g + 1]
    IN  IF new_state = ghost.state THEN S
        ELSE LET gh == CASE ghost.state = GHOSTSTATE_LEAVEHOUSE ->
                              [ghost EXCEPT !.next_dir = DIR_LEFT, !.actor.dir = DIR_LEFT]
                         [] ghost.state = GHOSTSTATE_ENTERHOUSE ->
                              ghost
                         [] ghost.state = GHOSTSTATE_FRIGHTENED -> ghost
                         [] ghost.state \in {GHOSTSTATE_SCATTER, GHOSTSTATE_CHASE} ->
                              [ghost EXCEPT !.next_dir = reverse_dir(ghost.actor.dir)]
                         [] OTHER -> ghost
             IN  [S EXCEPT !.game.ghost[g + 1] = [gh EXCEPT !.state = new_state]]

\* the transitions without the reversal of the cases SCATTER and CHASE
ghost_transition_straight(S, g, new_state) ==
    LET ghost == S.game.ghost[g + 1]
    IN  IF new_state = ghost.state THEN S
        ELSE LET gh == CASE ghost.state = GHOSTSTATE_LEAVEHOUSE ->
                              [ghost EXCEPT !.next_dir = DIR_LEFT, !.actor.dir = DIR_LEFT]
                         [] ghost.state = GHOSTSTATE_ENTERHOUSE ->
                              [ghost EXCEPT !.frightened = disable]
                         [] ghost.state = GHOSTSTATE_FRIGHTENED -> ghost
                         [] ghost.state \in {GHOSTSTATE_SCATTER, GHOSTSTATE_CHASE} ->
                              ghost
                         [] OTHER -> ghost
             IN  [S EXCEPT !.game.ghost[g + 1] = [gh EXCEPT !.state = new_state]]

\* handle state transitions: the second switch of game_update_ghost_state
ghost_transition(S, g, new_state) ==
    LET ghost == S.game.ghost[g + 1]
    IN  IF new_state = ghost.state THEN S
        ELSE LET gh == CASE ghost.state = GHOSTSTATE_LEAVEHOUSE ->
                              [ghost EXCEPT !.next_dir = DIR_LEFT, !.actor.dir = DIR_LEFT]
                         [] ghost.state = GHOSTSTATE_ENTERHOUSE ->
                              [ghost EXCEPT !.frightened = disable]
                         [] ghost.state = GHOSTSTATE_FRIGHTENED -> ghost
                         [] ghost.state \in {GHOSTSTATE_SCATTER, GHOSTSTATE_CHASE} ->
                              [ghost EXCEPT !.next_dir = reverse_dir(ghost.actor.dir)]
                         [] OTHER -> ghost
             IN  [S EXCEPT !.game.ghost[g + 1] = [gh EXCEPT !.state = new_state]]

\* the two switches of game_update_ghost_state, r being the result of the first
ghost_state_after(r, g) == ghost_transition(r.S, g, r.new_state)

\* this function takes care of switching ghosts into a new state
game_update_ghost_state(S, g) == ghost_state_after(ghost_new_state(S, g), g)

\* the chase target of ghost g
chase_target(S, g) ==
    LET ghost == S.game.ghost[g + 1]
        pm1_pos == pixel_to_tile_pos(S.game.pacman1.actor.pos)
        pm1_dir == dir_to_vec(S.game.pacman1.actor.dir)
        pm2_pos == pixel_to_tile_pos(S.game.pacman2.actor.pos)
        pm2_dir == dir_to_vec(S.game.pacman2.actor.dir)
    IN  CASE ghost.type = GHOSTTYPE_BLINKY -> pm2_pos
          [] ghost.type = GHOSTTYPE_PINKY -> add_i2(pm2_pos, mul_i2(pm2_dir, 4))
          [] ghost.type = GHOSTTYPE_INKY ->
                LET blinky_pos == pixel_to_tile_pos(S.game.ghost[GHOSTTYPE_BLINKY + 1].actor.pos)
                    p == add_i2(pm1_pos, mul_i2(pm1_dir, 2))
                    d == sub_i2(p, blinky_pos)
                IN  add_i2(blinky_pos, mul_i2(d, 2))
          [] ghost.type = GHOSTTYPE_CLYDE ->
                IF squared_distance_i2(pixel_to_tile_pos(ghost.actor.pos), pm1_pos) > 64
                THEN pm1_pos
                ELSE IF squared_distance_i2(pixel_to_tile_pos(ghost.actor.pos), pm2_pos) > 64
                THEN pm2_pos
                ELSE ghost_scatter_targets[GHOSTTYPE_CLYDE + 1]
          [] OTHER -> ghost.target_pos

\* the target in frightened state, r1 being the first random number drawn
\* and r2 the second
frightened_target2(S, g, r1, r2) ==
    [S EXCEPT !.game.xorshift = r2,
              !.game.ghost[g + 1].target_pos =
                  IF S.build = "LR"
                  THEN i2(UMod(r1, DISPLAY_TILES_X), UMod(r2, DISPLAY_TILES_Y))
                  ELSE i2(UMod(r2, DISPLAY_TILES_X), UMod(r1, DISPLAY_TILES_Y))]

frightened_target(S, g, r1) == frightened_target2(S, g, r1, xorshift32(r1))

\* update the ghost's target position.  In frightened state the two calls of
\* xorshift32() are arguments of one call of i2(): C leaves their order open,
\* S.build says which one the compiler evaluates first
game_update_ghost_target(S, g) ==
    LET ghost == S.game.ghost[g + 1]
    IN  CASE ghost.state = GHOSTSTATE_SCATTER ->
                [S EXCEPT !.game.ghost[g + 1].target_pos = ghost_scatter_targets[ghost.type + 1]]
          [] ghost.state = GHOSTSTATE_CHASE ->
                [S EXCEPT !.game.ghost[g + 1].target_pos = chase_target(S, g)]
          [] ghost.state = GHOSTSTATE_FRIGHTENED ->
                frightened_target(S, g, xorshift32(S.game.xorshift))
          [] ghost.state = GHOSTSTATE_EYES ->
                [S EXCEPT !.game.ghost[g + 1].target_pos = i2(13, 14)]
          [] OTHER -> S

\* the loop of game_update_ghost_dir over the directions dirs[i .. 3]: the
\* next_dir that results, acc = [min_dist, next_dir]
RECURSIVE try_dirs(_, _, _, _, _)
try_dirs(S, ghost, lookahead_pos, i, acc) ==
    IF i > NUM_DIRS THEN acc.next_dir
    ELSE LET dir == <<DIR_UP, DIR_LEFT, DIR_DOWN, DIR_RIGHT>>[i]
             revdir == reverse_dir(dir)
             test_pos == clamped_tile_pos(add_i2(lookahead_pos, dir_to_vec(dir)))
             dist == squared_distance_i2(test_pos, ghost.target_pos)
         IN  IF is_redzone(lookahead_pos) /\ (dir = DIR_UP) /\ (ghost.state # GHOSTSTATE_EYES)
             THEN try_dirs(S, ghost, lookahead_pos, i + 1, acc)
             ELSE IF (revdir # ghost.actor.dir) /\ ~is_blocking_tile(S, test_pos)
                     /\ (dist < acc.min_dist)
             THEN try_dirs(S, ghost, lookahead_pos, i + 1, [min_dist |-> dist, next_dir |-> dir])
             ELSE try_dirs(S, ghost, lookahead_pos, i + 1, acc)

\* the new next-direction chosen for the ghost's own tile, not the tile ahead
ghost_head_to_target_own(S, gh) ==
    [gh EXCEPT !.next_dir =
        try_dirs(S, gh, pixel_to_tile_pos(gh.actor.pos), 1,
                 [min_dist |-> 100000, next_dir |-> gh.next_dir])]

\* scatter/chase/frightened at the midpoint of a tile: compute the new
\* next-direction of the ghost gh (whose dir already is the old next_dir)
ghost_head_to_target(S, gh) ==
    [gh EXCEPT !.next_dir =
        try_dirs(S, gh, add_i2(pixel_to_tile_pos(gh.actor.pos), dir_to_vec(gh.actor.dir)), 1,
                 [min_dist |-> 100000, next_dir |-> gh.next_dir])]

\* compute the next ghost direction: the updated ghost and whether the
\* resulting movement should always happen (force)
game_update_ghost_dir(S, g) ==
    LET ghost == S.game.ghost[g + 1]
        pos == ghost.actor.pos
    IN  CASE ghost.state = GHOSTSTATE_HOUSE ->
                LET nd == IF pos.y <= 17 * TILE_HEIGHT THEN DIR_DOWN
                          ELSE IF pos.y >= 18 * TILE_HEIGHT THEN DIR_UP
                          ELSE ghost.next_dir
                IN  [ghost |-> [ghost EXCEPT !.next_dir = nd, !.actor.dir = nd], force |-> TRUE]
          [] ghost.state = GHOSTSTATE_LEAVEHOUSE ->
                LET mid_y == 17 * TILE_HEIGHT + TILE_HEIGHT \div 2
                    nd == IF pos.x = ANTEPORTAS_X
                          THEN (IF pos.y > ANTEPORTAS_Y THEN DIR_UP ELSE ghost.next_dir)
                          ELSE IF pos.y > mid_y THEN DIR_UP
                          ELSE IF pos.y < mid_y THEN DIR_DOWN
                          ELSE IF pos.x > ANTEPORTAS_X THEN DIR_LEFT ELSE DIR_RIGHT
                IN  [ghost |-> [ghost EXCEPT !.next_dir = nd, !.actor.dir = nd], force |-> TRUE]
          [] ghost.state = GHOSTSTATE_ENTERHOUSE ->
                LET tile_pos == pixel_to_tile_pos(pos)
                    tgt_pos == ghost_house_target_pos[ghost.type + 1]
                    nd == IF tile_pos.y = 14
                          THEN (IF pos.x # ANTEPORTAS_X
                                THEN (IF pos.x < ANTEPORTAS_X THEN DIR_RIGHT ELSE DIR_LEFT)
                                ELSE DIR_DOWN)
                          ELSE IF pos.y = tgt_pos.y
                          THEN (IF pos.x < tgt_pos.x THEN DIR_RIGHT ELSE DIR_LEFT)
                          ELSE ghost.next_dir
                IN  [ghost |-> [ghost EXCEPT !.next_dir = nd, !.actor.dir = nd], force |-> TRUE]
          [] OTHER ->
                IF equal_i2(dist_to_tile_mid(pos), i2(0, 0))
                THEN [ghost |-> ghost_head_to_target(S, [ghost EXCEPT !.actor.dir = ghost.next_dir]),
                      force |-> FALSE]
                ELSE [ghost |-> ghost, force |-> FALSE]

\* the dot counters without the break of the loop over the ghosts
game_update_ghosthouse_dot_counters_all(S) ==
    IF S.game.global_dot_counter_active
    THEN [S EXCEPT !.game.global_dot_counter = U8(@ + 1)]
    ELSE [S EXCEPT !.game.ghost =
              [g \in 1 .. NUM_GHOSTS |->
                  IF S.game.ghost[g].dot_counter < S.game.ghost[g].dot_limit
                  THEN [S.game.ghost[g] EXCEPT !.dot_counter = U16(@ + 1)]
                  ELSE S.game.ghost[g]]]

\* the dot counters with global mode ending at 32 wherever Clyde is
game_update_ghosthouse_dot_counters_off(S) ==
    IF S.game.global_dot_counter_active
    THEN [S EXCEPT !.game.global_dot_counter = U8(@ + 1),
                   !.game.global_dot_counter_active = (U8(S.game.global_dot_counter + 1) # 32)]
    ELSE LET below == {i \in GhostTypes : S.game.ghost[i + 1].dot_counter < S.game.ghost[i + 1].dot_limit}
         IN  IF below = {} THEN S
             ELSE LET i == CHOOSE j \in below : \A k \in below : j <= k
                  IN  [S EXCEPT !.game.ghost[i + 1].dot_counter = U16(@ + 1)]

\* the dot counters with the global counter counting in steps of two
game_update_ghosthouse_dot_counters_two(S) ==
    IF S.game.global_dot_counter_active
    THEN [S EXCEPT !.game.global_dot_counter = U8(@ + 2)]
    ELSE LET below == {i \in GhostTypes : S.game.ghost[i + 1].dot_counter < S.game.ghost[i + 1].dot_limit}
         IN  IF below = {} THEN S
             ELSE LET i == CHOOSE j \in below : \A k \in below : j <= k
                  IN  [S EXCEPT !.game.ghost[i + 1].dot_counter = U16(@ + 1)]

\* update the dot counters used to decide whether ghosts must leave the house
game_update_ghosthouse_dot_counters(S) ==
    IF S.game.global_dot_counter_active
    THEN [S EXCEPT !.game.global_dot_counter = U8(@ + 1)]
    ELSE LET below == {i \in GhostTypes : S.game.ghost[i + 1].dot_counter < S.game.ghost[i + 1].dot_limit}
         IN  IF below = {} THEN S
             ELSE LET i == CHOOSE j \in below : \A k \in below : j <= k
                  IN  [S EXCEPT !.game.ghost[i + 1].dot_counter = U16(@ + 1)]

\* called when a dot or pill has been eaten, checks if a round has been won
\* and whether to show the bonus fruit
game_update_dots_eaten(S) ==
    LET n == U8(S.game.num_dots_eaten + 1)
        S1 == [S EXCEPT !.game.num_dots_eaten = n]
    IN  IF n = NUM_DOTS THEN [S1 EXCEPT !.game.round_won = start(S.timing.tick)]
        ELSE IF (n = 70) \/ (n = 170) THEN [S1 EXCEPT !.game.fruit_active = start(S.timing.tick)]
        ELSE S1

-----------------------------------------------------------------------------
(* Observations.  S.obs is not program state: it records what the last     *)
(* step did (and a little history) so that properties of one tick can be   *)
(* stated over the state that the tick leaves behind.                      *)

\* the observations at the start of a step: nothing has happened yet, pre
\* holds the values the step starts from, the history fields are kept
ObsStart(S) ==
    [game_init |-> FALSE,       \* game_init() ran
     round_init |-> FALSE,      \* game_round_init() ran
     updated |-> FALSE,         \* game_update_actors() ran
     frozen |-> FALSE,          \* game_tick() found the game frozen and skipped it
     wraps |-> {},              \* the move steps that wrapped x
     dot |-> FALSE,             \* a dot was eaten, on tile dot_pos
     dot_pos |-> i2(0, 0),
     pill |-> FALSE,            \* a pill was eaten
     fruit |-> "none",          \* the pacman that has eaten the bonus fruit
     eaten |-> <<>>,            \* the ghosts eaten: [g, k, delta]
     died |-> FALSE,            \* a ghost has eaten Pacman
     first_after |-> {},        \* ghosts with their first update after a fright window
     first_after_nr |-> {},     \* the same, for the windows of fright_nr
     pre |-> [score |-> S.game.score,
              num_dots_eaten |-> S.game.num_dots_eaten,
              num_ghosts_eaten |-> S.game.num_ghosts_eaten,
              global_dot_counter_active |-> S.game.global_dot_counter_active,
              global_dot_counter |-> S.game.global_dot_counter,
              ghost_state |-> [g \in 1 .. NUM_GHOSTS |-> S.game.ghost[g].state],
              lost_life |-> S.obs.lost_life,
              num_lives |-> S.game.num_lives,
              round |-> S.game.round,
              death |-> S.obs.death,
              tick |-> S.timing.tick,
              last_dot |-> S.obs.last_dot,
              last_pill |-> S.obs.last_pill,
              game |-> S.game],          \* the game state before the step
     last_dot |-> S.obs.last_dot,       \* tick of the last dot eaten, or -1
     last_pill |-> S.obs.last_pill,     \* tick of the last pill eaten, or -1
     k_since_pill |-> S.obs.k_since_pill, \* ghosts eaten since the last pill
     fright |-> S.obs.fright,           \* per ghost: pill tick T and F, for a ghost that was in
                                        \* SCATTER/CHASE at the pill and has not been eaten
                                        \* since; dropped when a round init runs
     fright_nr |-> S.obs.fright_nr,     \* the same, also dropped when pacman1 eats the
                                        \* bonus fruit
     lost_life |-> S.obs.lost_life,     \* Pacman was eaten since the last round init
     death |-> S.obs.death,             \* tick and num_lives of that death, or NoDeath
     over_at |-> S.obs.over_at,         \* tick at which game_over fired in this game, or -1
     immune |-> S.obs.immune,           \* the ghosts (types) eaten since the last pill
     since_reset |-> S.obs.since_reset, \* the ghosts eaten since num_ghosts_eaten was reset
     interact |-> <<>>,                 \* the tiles at which the interactions were evaluated
     at_update |-> S.game.ghost,        \* the ghosts when the ghost loop starts
     dir_calls |-> <<>>,                \* the calls of game_update_ghost_dir: [g, before, after]
     after_state |-> S.game.ghost]      \* each ghost after its game_update_ghost_state

\* the zero-initialized ghost_t
GhostZero ==
    [actor |-> [dir |-> 0, pos |-> i2(0, 0)], type |-> 0, next_dir |-> 0,
     target_pos |-> i2(0, 0), state |-> GHOSTSTATE_NONE, frightened |-> 0, eaten |-> 0,
     dot_counter |-> 0, dot_limit |-> 0]

\* the game state of the zero-initialized program state
GameZero ==
    [xorshift |-> 0, hiscore |-> 0, started |-> 0, ready_started |-> 0,
     round_started |-> 0, round_won |-> 0, game_over |-> 0, dot_eaten |-> 0,
     pill_eaten |-> 0, ghost_eaten |-> 0, pacman_eaten |-> 0, fruit_eaten |-> 0,
     force_leave_house |-> 0, fruit_active |-> 0, freeze |-> {}, round |-> 0,
     score |-> 0, num_lives |-> 0, num_ghosts_eaten |-> 0, num_dots_eaten |-> 0,
     global_dot_counter_active |-> FALSE, global_dot_counter |-> 0,
     ghost |-> [g \in 1 .. NUM_GHOSTS |-> GhostZero],
     pacman1 |-> [actor |-> [dir |-> 0, pos |-> i2(0, 0)]],
     pacman2 |-> [actor |-> [dir |-> 0, pos |-> i2(0, 0)]],
     player2 |-> FALSE, active_fruit |-> FRUIT_NONE]

ObsInit ==
    [game_init |-> FALSE, round_init |-> FALSE, updated |-> FALSE, frozen |-> FALSE,
     wraps |-> {},
     dot |-> FALSE, dot_pos |-> i2(0, 0), pill |-> FALSE, fruit |-> "none",
     eaten |-> <<>>, died |-> FALSE, first_after |-> {}, first_after_nr |-> {},
     pre |-> [score |-> 0, num_dots_eaten |-> 0, num_ghosts_eaten |-> 0,
              global_dot_counter_active |-> FALSE, global_dot_counter |-> 0,
              ghost_state |-> [g \in 1 .. NUM_GHOSTS |-> GHOSTSTATE_NONE],
              lost_life |-> FALSE, num_lives |-> 0, round |-> 0,
              death |-> NoDeath,
              tick |-> 0, last_dot |-> -1, last_pill |-> -1, game |-> GameZero],
     last_dot |-> -1, last_pill |-> -1, k_since_pill |-> 0,
     fright |-> [g \in 1 .. NUM_GHOSTS |-> NoFright],
     fright_nr |-> [g \in 1 .. NUM_GHOSTS |-> NoFright],
     lost_life |-> FALSE, death |-> NoDeath, over_at |-> -1,
     immune |-> {}, since_reset |-> {}, interact |-> <<>>, dir_calls |-> <<>>,
     at_update |-> GameZero.ghost, after_state |-> GameZero.ghost]

\* record a move step that wraps the x coordinate: p is the position
\* before the wrap
note_wrap(S, who, pos, dir, p) ==
    IF (p.x < 0) \/ (p.x >= DISPLAY_PIXELS_X)
    THEN [S EXCEPT !.obs.wraps = @ \cup {[who |-> who, from |-> pos, dir |-> dir, to |-> wrap_x(p)]}]
    ELSE S

note_move(S, who, pos, dir, allow_cornering) ==
    note_wrap(S, who, pos, dir, move_dragged(pos, dir, allow_cornering))

\* record the ghosts that are in SCATTER or CHASE when a pill is eaten
note_pill(S) ==
    LET f == [g \in 1 .. NUM_GHOSTS |->
                 IF S.game.ghost[g].state \in {GHOSTSTATE_SCATTER, GHOSTSTATE_CHASE}
                 THEN [T |-> S.timing.tick, F |-> levelspec(S.game.round).fright_ticks]
                 ELSE NoFright]
    IN  [S EXCEPT !.obs.pill = TRUE, !.obs.last_pill = S.timing.tick,
                  !.obs.k_since_pill = 0, !.obs.immune = {},
                  !.obs.fright = f, !.obs.fright_nr = f]

\* record the first update of ghost g after its fright window
note_first_after(S, g) ==
    IF (S.obs.fright[g + 1].T >= 0)
       /\ (S.timing.tick > S.obs.fright[g + 1].T + S.obs.fright[g + 1].F)
    THEN [S EXCEPT !.obs.first_after = @ \cup {g}, !.obs.fright[g + 1] = NoFright]
    ELSE S

note_first_after_nr(S, g) ==
    IF (S.obs.fright_nr[g + 1].T >= 0)
       /\ (S.timing.tick > S.obs.fright_nr[g + 1].T + S.obs.fright_nr[g + 1].F)
    THEN [S EXCEPT !.obs.first_after_nr = @ \cup {g}, !.obs.fright_nr[g + 1] = NoFright]
    ELSE S

note_ghost_update(S, g) ==
    [note_first_after_nr(note_first_after(S, g), g)
        EXCEPT !.obs.after_state[g + 1] = S.game.ghost[g + 1]]

-----------------------------------------------------------------------------
(* Actors.                                                                 *)

\* the frighten loop restricted to the ghosts in SCATTER, CHASE or FRIGHTENED
frighten_ghosts_outside(S) ==
    [S EXCEPT !.game.ghost =
        [g \in 1 .. NUM_GHOSTS |->
            IF @[g].state \in {GHOSTSTATE_SCATTER, GHOSTSTATE_CHASE, GHOSTSTATE_FRIGHTENED}
            THEN [@[g] EXCEPT !.frightened = start(S.timing.tick)]
            ELSE @[g]]]

\* the loop `for i: start(&state.game.ghost[i].frightened)`
frighten_ghosts(S) ==
    [S EXCEPT !.game.ghost =
        [g \in 1 .. NUM_GHOSTS |-> [@[g] EXCEPT !.frightened = start(S.timing.tick)]]]

\* move into the selected direction
pacman_step(S, which) ==
    IF can_move(S, S.game[which].actor.pos, S.game[which].actor.dir, TRUE)
    THEN [note_move(S, which, S.game[which].actor.pos, S.game[which].actor.dir, TRUE)
             EXCEPT !.game[which].actor.pos = move(@, S.game[which].actor.dir, TRUE)]
    ELSE S

\* look ahead to check if the wanted direction is blocked
pacman_turn(S, which, wanted_dir) ==
    IF can_move(S, S.game[which].actor.pos, wanted_dir, TRUE)
    THEN [S EXCEPT !.game[which].actor.dir = wanted_dir]
    ELSE S

\* move Pacman with cornering allowed; which is "pacman1" or "pacman2"
pacman_move(S, which) ==
    pacman_step(pacman_turn(S, which, input_dir(S, S.game[which].actor.dir)), which)

\* the dot code without vid_tile(tile_pos, TILE_SPACE): the dot stays
pacman_eat_dot_kept(S, tile_pos) ==
    IF is_dot(S, tile_pos)
    THEN LET S2 == [S EXCEPT !.game.score = UAdd(@, 1),
                             !.game.dot_eaten = start(S.timing.tick),
                             !.game.force_leave_house = start(S.timing.tick),
                             !.obs.dot = TRUE,
                             !.obs.dot_pos = tile_pos,
                             !.obs.last_dot = S.timing.tick]
         IN  game_update_ghosthouse_dot_counters(game_update_dots_eaten(S2))
    ELSE S

\* eat dot?
pacman_eat_dot(S, tile_pos) ==
    IF is_dot(S, tile_pos)
    THEN LET S1 == vid_tile(S, tile_pos, TILE_SPACE)
             S2 == [S1 EXCEPT !.game.score = UAdd(@, 1),
                              !.game.dot_eaten = start(S.timing.tick),
                              !.game.force_leave_house = start(S.timing.tick),
                              !.obs.dot = TRUE,
                              !.obs.dot_pos = tile_pos,
                              !.obs.last_dot = S.timing.tick]
         IN  game_update_ghosthouse_dot_counters(game_update_dots_eaten(S2))
    ELSE S

\* eat energizer pill?
pacman_eat_pill(S, tile_pos) ==
    IF is_pill(S, tile_pos)
    THEN LET S1 == vid_tile(S, tile_pos, TILE_SPACE)
             S2 == game_update_dots_eaten([S1 EXCEPT !.game.score = UAdd(@, 5)])
             S3 == [S2 EXCEPT !.game.pill_eaten = start(S.timing.tick),
                              !.game.num_ghosts_eaten = 0,
                              !.obs.since_reset = {}]
         IN  frighten_ghosts(note_pill(S3))
    ELSE S

\* what only pacman1's copy of the fruit code goes on to do: start
\* pill_eaten, reset num_ghosts_eaten and frighten the ghosts
fruit_frightens(S, which) ==
    IF which = "pacman1"
    THEN frighten_ghosts(
             [S EXCEPT !.game.pill_eaten = start(S.timing.tick),
                       !.game.num_ghosts_eaten = 0,
                       !.obs.since_reset = {},
                       !.obs.fright_nr = [g \in 1 .. NUM_GHOSTS |-> NoFright]])
    ELSE S

\* check if Pacman eats the bonus fruit
pacman_eat_fruit(S, which) ==
    IF (S.game.active_fruit # FRUIT_NONE)
       /\ equal_i2(pixel_to_tile_pos(add_i2(S.game[which].actor.pos, i2(TILE_WIDTH \div 2, 0))),
                   i2(14, 20))
    THEN fruit_frightens(
             [vid_fruit_score(S, S.game.active_fruit) EXCEPT
                  !.game.fruit_eaten = start(S.timing.tick),
                  !.game.score = UAdd(@, levelspec(S.game.round).bonus_score),
                  !.game.active_fruit = FRUIT_NONE,
                  !.obs.fruit = which],
             which)
    ELSE S

\* Pacman eats the frightened ghost i
pacman_eats_ghost(S, i) ==
    [S EXCEPT !.game.ghost[i + 1].state = GHOSTSTATE_EYES,
              !.game.ghost[i + 1].eaten = start(S.timing.tick),
              !.game.ghost_eaten = start(S.timing.tick),
              !.game.num_ghosts_eaten = U8(@ + 1),
              !.game.score = UAdd(@, 10 * (2 ^ U8(S.game.num_ghosts_eaten + 1))),
              !.game.freeze = @ \cup {FREEZETYPE_EAT_GHOST},
              !.obs.eaten = Append(@, [g |-> i, k |-> S.obs.k_since_pill + 1,
                                       delta |-> 10 * (2 ^ U8(S.game.num_ghosts_eaten + 1))]),
              !.obs.k_since_pill = @ + 1,
              !.obs.immune = @ \cup {i},
              !.obs.since_reset = @ \cup {i},
              !.obs.fright[i + 1] = NoFright,
              !.obs.fright_nr[i + 1] = NoFright]

\* a ghost eats Pacman: the next round starts after PACMAN_EATEN_TICKS
ghost_eats_pacman_short(S) ==
    IF S.game.num_lives > 0
    THEN [S EXCEPT !.game.pacman_eaten = start(S.timing.tick),
                   !.game.freeze = @ \cup {FREEZETYPE_DEAD},
                   !.game.ready_started = start_after(PACMAN_EATEN_TICKS, S.timing.tick),
                   !.obs.died = TRUE,
                   !.obs.lost_life = TRUE,
                   !.obs.death = [tick |-> S.timing.tick, num_lives |-> S.game.num_lives]]
    ELSE [S EXCEPT !.game.pacman_eaten = start(S.timing.tick),
                   !.game.freeze = @ \cup {FREEZETYPE_DEAD},
                   !.game.game_over = start_after(PACMAN_EATEN_TICKS, S.timing.tick),
                   !.obs.died = TRUE,
                   !.obs.lost_life = TRUE,
                   !.obs.death = [tick |-> S.timing.tick, num_lives |-> S.game.num_lives]]

\* ghost_eats_pacman without the test of num_lives: a new round in any case
ghost_eats_pacman_again(S) ==
    [S EXCEPT !.game.pacman_eaten = start(S.timing.tick),
              !.game.freeze = @ \cup {FREEZETYPE_DEAD},
              !.game.ready_started =
                  start_after(PACMAN_EATEN_TICKS + PACMAN_DEATH_TICKS, S.timing.tick),
              !.obs.died = TRUE,
              !.obs.lost_life = TRUE,
              !.obs.death = [tick |-> S.timing.tick, num_lives |-> S.game.num_lives]]

\* a ghost eats Pacman, Pacman loses a life
ghost_eats_pacman(S) ==
    IF S.game.num_lives > 0
    THEN [S EXCEPT !.game.pacman_eaten = start(S.timing.tick),
                   !.game.freeze = @ \cup {FREEZETYPE_DEAD},
                   !.game.ready_started =
                       start_after(PACMAN_EATEN_TICKS + PACMAN_DEATH_TICKS, S.timing.tick),
                   !.obs.died = TRUE,
                   !.obs.lost_life = TRUE,
                   !.obs.death = [tick |-> S.timing.tick, num_lives |-> S.game.num_lives]]
    ELSE [S EXCEPT !.game.pacman_eaten = start(S.timing.tick),
                   !.game.freeze = @ \cup {FREEZETYPE_DEAD},
                   !.game.game_over =
                       start_after(PACMAN_EATEN_TICKS + PACMAN_DEATH_TICKS, S.timing.tick),
                   !.obs.died = TRUE,
                   !.obs.lost_life = TRUE,
                   !.obs.death = [tick |-> S.timing.tick, num_lives |-> S.game.num_lives]]

\* check if Pacman (on tile_pos) collides with ghost i
pacman_collide_ghost(S, tile_pos, i) ==
    IF ~equal_i2(tile_pos, pixel_to_tile_pos(S.game.ghost[i + 1].actor.pos)) THEN S
    ELSE IF S.game.ghost[i + 1].state = GHOSTSTATE_FRIGHTENED THEN pacman_eats_ghost(S, i)
    ELSE IF S.game.ghost[i + 1].state \in {GHOSTSTATE_CHASE, GHOSTSTATE_SCATTER}
    THEN ghost_eats_pacman(S)
    ELSE S

\* check if Pacman (on tile_pos) collides with any of the ghosts i, i + 1, ...
RECURSIVE pacman_collide(_, _, _)
pacman_collide(S, tile_pos, i) ==
    IF i >= NUM_GHOSTS THEN S
    ELSE CHOOSE R \in {pacman_collide(S1, tile_pos, i + 1) :
                          S1 \in {pacman_collide_ghost(S, tile_pos, i)}} : TRUE

\* eat dot or energizer pill?  the bonus fruit?  collide with a ghost?
pacman_interact(S, which, tile_pos) ==
    CHOOSE R \in {pacman_collide(S3, tile_pos, 0) : S3 \in
                 {pacman_eat_fruit(S2, which) : S2 \in
                 {pacman_eat_pill(S1, tile_pos) : S1 \in
                 {pacman_eat_dot(S, tile_pos)}}}} : TRUE

\* the interactions of the Pacman that has just moved
pacman_after_move(S, which) ==
    pacman_interact([S EXCEPT !.obs.interact =
                        Append(@, pixel_to_tile_pos(S.game[which].actor.pos))],
                    which, pixel_to_tile_pos(S.game[which].actor.pos))

\* the body of one Pacman's block of game_update_actors
pacman_update(S, which) ==
    CHOOSE R \in {pacman_after_move(S1, which) : S1 \in {pacman_move(S, which)}} : TRUE

\* record a call of game_update_ghost_dir for ghost g with the result r
note_dir(S, g, r) ==
    [S EXCEPT !.obs.dir_calls =
         Append(@, [g |-> g, before |-> S.game.ghost[g + 1], after |-> r.ghost])]

\* one move of ghost g, r being the result of game_update_ghost_dir
ghost_step(S, g, r) ==
    IF r.force \/ can_move(S, r.ghost.actor.pos, r.ghost.actor.dir, FALSE)
    THEN [note_move(S, g, r.ghost.actor.pos, r.ghost.actor.dir, FALSE) EXCEPT
              !.game.ghost[g + 1] =
                  [r.ghost EXCEPT !.actor.pos = move(@, r.ghost.actor.dir, FALSE)]]
    ELSE [S EXCEPT !.game.ghost[g + 1] = r.ghost]

\* the moves of ghost g in one tick: n more steps
RECURSIVE ghost_steps(_, _, _)
ghost_steps(S, g, n) ==
    IF n = 0 THEN S
    ELSE CHOOSE R \in {ghost_steps(S2, g, n - 1) : S2 \in
                      {ghost_step(S1, g, game_update_ghost_dir(S, g)) : S1 \in
                      {note_dir(S, g, game_update_ghost_dir(S, g))}}} : TRUE

\* finally, move the ghost towards the current target position
ghost_move(S, g) == ghost_steps(S, g, game_ghost_speed(S, g))

\* Ghost "AIs": the loop over the ghosts g, g + 1, ...
RECURSIVE ghosts_update(_, _)
ghosts_update(S, g) ==
    IF g >= NUM_GHOSTS THEN S
    ELSE CHOOSE R \in {ghosts_update(S4, g + 1) : S4 \in
                      {ghost_move(S3, g) : S3 \in
                      {game_update_ghost_target(S2, g) : S2 \in
                      {note_ghost_update(S1, g) : S1 \in
                      {game_update_ghost_state(S, g)}}}}} : TRUE

\* pacman2's block with the interactions evaluated in every tick
pacman2_update_always(S) ==
    IF S.game.player2 THEN S
    ELSE IF game_pacman_should_move(S) THEN pacman_update(S, "pacman2")
    ELSE pacman_after_move(S, "pacman2")

\* Pacman "AI": one of the two blocks of game_update_actors
pacman1_update(S) ==
    IF game_pacman_should_move(S) /\ S.game.player2 THEN pacman_update(S, "pacman1") ELSE S

pacman2_update(S) ==
    IF game_pacman_should_move(S) /\ ~S.game.player2 THEN pacman_update(S, "pacman2") ELSE S

\* the ghost loop of game_update_actors
actors_ghosts(S) ==
    ghosts_update([S EXCEPT !.obs.updated = TRUE,
                            !.obs.at_update = S.game.ghost,
                            !.obs.after_state = S.game.ghost], 0)

\* the central Pacman and ghost behaviour function, called once per game tick
game_update_actors(S) ==
    CHOOSE R \in {actors_ghosts(S2) : S2 \in
                 {pacman2_update(S1) : S1 \in
                 {pacman1_update(S)}}} : TRUE

-----------------------------------------------------------------------------
(* The tick functions.                                                     *)

\* game_tick: initialize game state once
tick_started(S) ==
    IF now(S.game.started, S.timing.tick)
    THEN game_init([S EXCEPT !.gfx.fadein = start(S.timing.tick),
                             !.game.ready_started = start_after(2 * 60, S.timing.tick)])
    ELSE S

\* game_tick: initialize new round (each time Pacman looses a life)
tick_ready_started(S) ==
    IF now(S.game.ready_started, S.timing.tick)
    THEN [game_round_init(S) EXCEPT
              !.game.round_started = start_after(2*60 + 10, S.timing.tick)]
    ELSE S

\* game_tick: start the interactive game loop, clear the 'READY!' message
tick_round_started(S) ==
    IF now(S.game.round_started, S.timing.tick)
    THEN vid_color_text([S EXCEPT !.game.freeze = @ \ {FREEZETYPE_READY}],
                        i2(11, 20), TEXT_BLANK6)
    ELSE S

\* game_tick: activate/deactivate bonus fruit
tick_fruit(S) ==
    IF now(S.game.fruit_active, S.timing.tick)
    THEN [S EXCEPT !.game.active_fruit = levelspec(S.game.round).bonus_fruit]
    ELSE IF after_once(S.game.fruit_active, FRUITACTIVE_TICKS, S.timing.tick)
    THEN [S EXCEPT !.game.active_fruit = FRUIT_NONE]
    ELSE S

\* the unfreeze after a ghost was eaten, also clearing num_ghosts_eaten
tick_unfreeze_reset(S) ==
    IF (FREEZETYPE_EAT_GHOST \in S.game.freeze)
       /\ after_once(S.game.ghost_eaten, GHOST_EATEN_FREEZE_TICKS, S.timing.tick)
    THEN [S EXCEPT !.game.freeze = @ \ {FREEZETYPE_EAT_GHOST},
                   !.game.num_ghosts_eaten = 0]
    ELSE S

\* the unfreeze one tick early
tick_unfreeze_early(S) ==
    IF (FREEZETYPE_EAT_GHOST \in S.game.freeze)
       /\ after_once(S.game.ghost_eaten, GHOST_EATEN_FREEZE_TICKS - 1, S.timing.tick)
    THEN [S EXCEPT !.game.freeze = @ \ {FREEZETYPE_EAT_GHOST}]
    ELSE S

\* game_tick: if game is frozen because Pacman ate a ghost, unfreeze after a while
tick_unfreeze(S) ==
    IF (FREEZETYPE_EAT_GHOST \in S.game.freeze)
       /\ after_once(S.game.ghost_eaten, GHOST_EATEN_FREEZE_TICKS, S.timing.tick)
    THEN [S EXCEPT !.game.freeze = @ \ {FREEZETYPE_EAT_GHOST}]
    ELSE S

\* game_tick with the actors updated in every tick, frozen or not
tick_actors_always(S) ==
    IF S.game.freeze = {}
    THEN game_update_actors(S)
    ELSE game_update_actors([S EXCEPT !.obs.frozen = TRUE])

\* game_tick: update Pacman and ghosts
tick_actors(S) ==
    IF S.game.freeze = {} THEN game_update_actors(S) ELSE [S EXCEPT !.obs.frozen = TRUE]

\* game_tick: update hiscore
tick_hiscore(S) ==
    IF UGt(S.game.score, S.game.hiscore) THEN [S EXCEPT !.game.hiscore = S.game.score] ELSE S

\* the end-round check without the freeze
tick_round_won_nofreeze(S) ==
    IF now(S.game.round_won, S.timing.tick)
    THEN [S EXCEPT !.game.ready_started = start_after(ROUNDWON_TICKS, S.timing.tick)]
    ELSE S

\* game_tick: check for end-round condition
tick_round_won(S) ==
    IF now(S.game.round_won, S.timing.tick)
    THEN [S EXCEPT !.game.freeze = @ \cup {FREEZETYPE_WON},
                   !.game.ready_started = start_after(ROUNDWON_TICKS, S.timing.tick)]
    ELSE S

\* game over with the intro state started together with the fade-out
tick_game_over_nofade(S) ==
    IF now(S.game.game_over, S.timing.tick)
    THEN [input_disable(vid_color_text(S, i2(9, 20), TEXT_GAME_OVER)) EXCEPT
              !.gfx.fadeout = start_after(GAMEOVER_TICKS, S.timing.tick),
              !.intro.started = start_after(GAMEOVER_TICKS, S.timing.tick),
              !.obs.over_at = S.timing.tick]
    ELSE S

\* game_tick: game over
tick_game_over(S) ==
    IF now(S.game.game_over, S.timing.tick)
    THEN [input_disable(vid_color_text(S, i2(9, 20), TEXT_GAME_OVER)) EXCEPT
              !.gfx.fadeout = start_after(GAMEOVER_TICKS, S.timing.tick),
              !.intro.started = start_after(GAMEOVER_TICKS + FADE_TICKS, S.timing.tick),
              !.obs.over_at = S.timing.tick]
    ELSE S

\* game_tick: leave the game loop with Esc (DBG_ESCAPE)
tick_escape(S) ==
    IF S.input1.esc
    THEN [input_disable(S) EXCEPT !.gfx.fadeout = start(S.timing.tick),
                                  !.intro.started = start_after(FADE_TICKS, S.timing.tick)]
    ELSE S

\* the central game tick function, called at 60 Hz
game_tick(S) ==
    CHOOSE R \in {tick_escape(S10) : S10 \in
                 {tick_game_over(S9) : S9 \in
                 {tick_round_won(S8) : S8 \in
                 {tick_hiscore(S7) : S7 \in
                 {game_update_tiles(S6) : S6 \in
                 {tick_actors(S5) : S5 \in
                 {tick_unfreeze(S4) : S4 \in
                 {tick_fruit(S3) : S3 \in
                 {tick_round_started(S2) : S2 \in
                 {tick_ready_started(S1) : S1 \in
                 {tick_started(S)}}}}}}}}}}} : TRUE

\* intro_tick: on intro-state enter, enable input and clear the screen (the
\* texts of the intro screen are not modelled: nothing reads them)
intro_enter(S) ==
    IF now(S.intro.started, S.timing.tick)
    THEN vid_clear(input_enable([S EXCEPT !.gfx.fadein = start(S.timing.tick)]), TILE_SPACE)
    ELSE S

\* intro_tick: if a key is pressed, advance to game state
intro_anykey(S) ==
    IF S.input1.anykey
    THEN [input_disable(S) EXCEPT !.gfx.fadeout = start(S.timing.tick),
                                  !.game.started = start_after(FADE_TICKS, S.timing.tick)]
    ELSE S

intro_tick(S) == intro_anykey(intro_enter(S))

\* frame: check for game state change
frame_gamestate(S) ==
    IF now(S.game.started, S.timing.tick) THEN [S EXCEPT !.gamestate = GAMESTATE_GAME]
    ELSE IF now(S.intro.started, S.timing.tick) THEN [S EXCEPT !.gamestate = GAMESTATE_INTRO]
    ELSE S

\* frame: call the top-level game state update function
frame_update(S) == IF S.gamestate = GAMESTATE_INTRO THEN intro_tick(S) ELSE game_tick(S)

\* one iteration of the tick loop of frame()
frame(S) ==
    CHOOSE R \in {frame_update(S2) : S2 \in
                 {frame_gamestate(S1) : S1 \in
                 {[S EXCEPT !.timing.tick = UAdd(@, 1)]}}} : TRUE

-----------------------------------------------------------------------------
(* The state machine.                                                      *)

\* the static state after init(): everything is zero, except that gfx_init
\* has disabled the fade triggers and init has started the intro
StateInit ==
    [gamestate |-> GAMESTATE_INTRO,
     timing |-> [tick |-> 0],
     intro |-> [started |-> start(0)],
     game |-> GameZero,
     input1 |-> InputZero,
     input2 |-> InputZero,
     gfx |-> [fadein |-> disable, fadeout |-> disable,
              video_ram |-> [y \in 1 .. DISPLAY_TILES_Y |-> [x \in 1 .. DISPLAY_TILES_X |-> 0]]]]

\* the current state as a record
St ==
    [gamestate |-> gamestate, timing |-> timing, intro |-> intro, game |-> game,
     input1 |-> input1, input2 |-> input2, gfx |-> gfx, build |-> build, obs |-> obs]

\* the next state is S
Becomes(S) ==
    /\ gamestate' = S.gamestate
    /\ timing' = S.timing
    /\ intro' = S.intro
    /\ game' = S.game
    /\ input1' = S.input1
    /\ input2' = S.input2
    /\ gfx' = S.gfx
    /\ obs' = S.obs

\* the environment plays a script of key events, <<tick, key, down>>: the
\* event arrives after the tick of that number; in the ticks free_from ..
\* free_to it may also send up to budget events of the keys free_keys
ScriptDue == (env.pc <= Len(env.script)) /\ (env.script[env.pc][1] = timing.tick)

ProgInit(e) ==
    /\ gamestate = StateInit.gamestate
    /\ timing = StateInit.timing
    /\ intro = StateInit.intro
    /\ game = StateInit.game
    /\ input1 = StateInit.input1
    /\ input2 = StateInit.input2
    /\ gfx = StateInit.gfx
    /\ build \in {"LR", "RL"}
    /\ env = e
    /\ obs = ObsInit

\* one game tick
Frame ==
    /\ ~ScriptDue
    /\ timing.tick < env.max_tick
    /\ Becomes(frame([St EXCEPT !.obs = ObsStart(St)]))
    /\ UNCHANGED <<build, env>>

\* a key event
Input ==
    \E key \in Keys, btn_down \in BOOLEAN :
        /\ \/ /\ ScriptDue
              /\ key = env.script[env.pc][2]
              /\ btn_down = env.script[env.pc][3]
              /\ env' = [env EXCEPT !.pc = @ + 1]
           \/ /\ ~ScriptDue
              /\ env.budget > 0
              /\ timing.tick >= env.free_from
              /\ timing.tick <= env.free_to
              /\ key \in env.free_keys
              /\ env' = [env EXCEPT !.budget = @ - 1]
        /\ Becomes(input([St EXCEPT !.obs = ObsStart(St)], key, btn_down))
        /\ UNCHANGED build

Next == Frame \/ Input

\* bounds of the scenarios: the number of free key events, and the length
\* of the window of ticks in which they may arrive
FreeBudget == 1
FreeSpan == 2

\* bound of the base scenario: free play from the intro screen
MaxTick == 40

EnvFree ==
    [script |-> <<>>, pc |-> 1, free_from |-> 0, free_to |-> MaxTick,
     free_keys |-> {"LEFT", "W", "ESCAPE", "OTHER"}, budget |-> FreeBudget, max_tick |-> MaxTick]

Init == ProgInit(EnvFree)

Spec == Init /\ [][Next]_vars

-----------------------------------------------------------------------------
(* The time triggers on their own: the trigger state.intro.started is      *)
(* armed, disabled and read while the tick counter advances.  obs records  *)
(* the last operation on the trigger: its kind, the tick T at which it ran *)
(* and the tick F at which the trigger is to fire.  The ticks stay far     *)
(* below DISABLED_TICKS (the wrap of the tick counter after 2^32 ticks is  *)
(* not looked at).                                                         *)

TrigInit ==
    /\ gamestate = StateInit.gamestate
    /\ timing = StateInit.timing
    /\ intro = StateInit.intro
    /\ game = StateInit.game
    /\ input1 = StateInit.input1
    /\ input2 = StateInit.input2
    /\ gfx = StateInit.gfx
    /\ build = "RL"
    /\ env = EnvFree
    /\ obs = [kind |-> "start", T |-> 0, F |-> 1]

\* start(&state.intro.started)
TrigStart ==
    /\ intro' = [intro EXCEPT !.started = start(timing.tick)]
    /\ obs' = [kind |-> "start", T |-> timing.tick, F |-> timing.tick + 1]
    /\ UNCHANGED <<gamestate, timing, game, input1, input2, gfx, build, env>>

\* start_after(&state.intro.started, ticks)
TrigStartAfter ==
    \E ticks \in 0 .. MaxTrigArg :
        /\ intro' = [intro EXCEPT !.started = start_after(ticks, timing.tick)]
        /\ obs' = [kind |-> "start_after", T |-> timing.tick, F |-> timing.tick + ticks]
        /\ UNCHANGED <<gamestate, timing, game, input1, input2, gfx, build, env>>

\* disable(&state.intro.started)
TrigDisable ==
    /\ intro' = [intro EXCEPT !.started = disable]
    /\ obs' = [kind |-> "disable", T |-> timing.tick, F |-> -1]
    /\ UNCHANGED <<gamestate, timing, game, input1, input2, gfx, build, env>>

\* state.timing.tick++
TrigTick ==
    /\ timing.tick < MaxTrigTick
    /\ timing' = [timing EXCEPT !.tick = UAdd(@, 1)]
    /\ UNCHANGED <<gamestate, intro, game, input1, input2, gfx, build, env, obs>>

TrigNext == TrigStart \/ TrigStartAfter \/ TrigDisable \/ TrigTick

SpecTrig == TrigInit /\ [][TrigNext]_vars

\* C1: after start(trig) at tick T (and until the trigger is armed again or
\* disabled), now(trig) is true at tick T + 1 and false at every other tick
C1_NowOnceAfterStart ==
    (obs.kind = "start") =>
        (now(intro.started, timing.tick) <=> (timing.tick = obs.T + 1))

\* the trigger started at a tick T > 0 fires at T + 1
C1_Witness ==
    /\ obs.kind = "start"
    /\ obs.T > 0
    /\ timing.tick = obs.T + 1
    /\ now(intro.started, timing.tick)

\* C2: a disabled trigger satisfies none of now, before, after and between,
\* whatever the arguments and the tick
C2_DisabledNeverFires ==
    (obs.kind = "disable") =>
        /\ ~now(intro.started, timing.tick)
        /\ \A a \in 0 .. MaxTrigArg :
               /\ ~before(intro.started, a, timing.tick)
               /\ ~after(intro.started, a, timing.tick)
               /\ \A b \in 0 .. MaxTrigArg : ~between(intro.started, a, b, timing.tick)

\* a trigger that was disabled two ticks ago
C2_Witness ==
    /\ obs.kind = "disable"
    /\ timing.tick = obs.T + 2
    /\ intro.started = DISABLED_TICKS

\* C3: for a trigger armed to fire at tick F, since(trig) is k at tick F + k
\* (k >= 0) and DISABLED_TICKS at every tick before F; for a disabled
\* trigger it is DISABLED_TICKS
C3_SinceCounts ==
    /\ (obs.kind \in {"start", "start_after"}) =>
           (since(intro.started, timing.tick) =
                IF timing.tick >= obs.F THEN timing.tick - obs.F ELSE DISABLED_TICKS)
    /\ (obs.kind = "disable") => (since(intro.started, timing.tick) = DISABLED_TICKS)

\* two ticks after the trigger fired, since is 2
C3_Witness ==
    /\ obs.kind = "start_after"
    /\ obs.F > obs.T + 1
    /\ timing.tick = obs.F + 2
    /\ since(intro.started, timing.tick) = 2

-----------------------------------------------------------------------------
(* Scenarios.  Each one plays a script of key events from the start of the *)
(* program and lets the player send FreeBudget more key events in a window *)
(* of ticks; the scripts are runs of the program in which the events that  *)
(* the properties are about take place.                                    *)

\* The hunt: player two (cursor keys) eats the lower left pill at tick 449,
\* a dot together with Blinky at tick 583 and Pinky at tick 702, goes
\* through the tunnel to the left and comes back through it to the right.
HuntScript ==
  <<<<1, "LEFT", TRUE>>, <<2, "LEFT", FALSE>>, <<282, "LEFT", TRUE>>,
     <<353, "LEFT", FALSE>>, <<353, "DOWN", TRUE>>, <<379, "DOWN", FALSE>>,
     <<379, "LEFT", TRUE>>, <<406, "LEFT", FALSE>>, <<406, "UP", TRUE>>,
     <<433, "UP", FALSE>>, <<433, "LEFT", TRUE>>, <<451, "LEFT", FALSE>>,
     <<451, "UP", TRUE>>, <<478, "UP", FALSE>>, <<478, "RIGHT", TRUE>>,
     <<525, "RIGHT", FALSE>>, <<525, "UP", TRUE>>, <<583, "UP", FALSE>>,
     <<583, "RIGHT", TRUE>>, <<666, "RIGHT", FALSE>>, <<666, "DOWN", TRUE>>,
     <<689, "DOWN", FALSE>>, <<689, "RIGHT", TRUE>>, <<702, "RIGHT", FALSE>>,
     <<763, "LEFT", TRUE>>, <<774, "LEFT", FALSE>>, <<774, "UP", TRUE>>,
     <<798, "UP", FALSE>>, <<798, "LEFT", TRUE>>, <<905, "LEFT", FALSE>>,
     <<905, "RIGHT", TRUE>>>>

HuntTicks == 960
HuntFreeAt == 582

EnvHunt ==
    [script |-> HuntScript, pc |-> 1, free_from |-> HuntFreeAt,
     free_to |-> HuntFreeAt + FreeSpan, free_keys |-> {"UP", "S", "ESCAPE"},
     budget |-> FreeBudget, max_tick |-> HuntTicks]

InitHunt == ProgInit(EnvHunt)

SpecHunt == InitHunt /\ [][Next]_vars

\* The lost life: Pacman stands still and is eaten at tick 972; in the next
\* round the player eats 32 dots while Clyde is still in the ghost house.
LifeScript ==
  <<<<1, "RIGHT", TRUE>>, <<2, "RIGHT", FALSE>>, <<1312, "RIGHT", TRUE>>,
     <<1321, "RIGHT", FALSE>>, <<1321, "UP", TRUE>>, <<1347, "UP", FALSE>>,
     <<1347, "RIGHT", TRUE>>, <<1453, "RIGHT", FALSE>>,
     <<1453, "DOWN", TRUE>>, <<1469, "DOWN", FALSE>>, <<1469, "UP", TRUE>>,
     <<1481, "UP", FALSE>>, <<1481, "LEFT", TRUE>>, <<1523, "LEFT", FALSE>>,
     <<1523, "DOWN", TRUE>>, <<1577, "DOWN", FALSE>>,
     <<1577, "RIGHT", TRUE>>, <<1623, "RIGHT", FALSE>>,
     <<1623, "DOWN", TRUE>>, <<1649, "DOWN", FALSE>>, <<1649, "LEFT", TRUE>>>>

LifeTicks == 1690
LifeFreeAt == 1640

EnvLife ==
    [script |-> LifeScript, pc |-> 1, free_from |-> LifeFreeAt,
     free_to |-> LifeFreeAt + FreeSpan, free_keys |-> {"UP", "S", "ESCAPE"},
     budget |-> FreeBudget, max_tick |-> LifeTicks]

InitLife == ProgInit(EnvLife)

SpecLife == InitLife /\ [][Next]_vars

\* The fruit: player one (W, A, S, D) eats 69 dots and then a pill at tick
\* 1084, which makes the bonus fruit appear, eats Inky at tick 1122, the
\* fruit at tick 1345 and Blinky at tick 1433.
FruitScript ==
  <<<<1, "OTHER", TRUE>>, <<2, "OTHER", FALSE>>, <<282, "D", TRUE>>,
     <<351, "D", FALSE>>, <<351, "S", TRUE>>, <<377, "S", FALSE>>,
     <<377, "D", TRUE>>, <<423, "D", FALSE>>, <<423, "S", TRUE>>,
     <<449, "S", FALSE>>, <<449, "A", TRUE>>, <<695, "A", FALSE>>,
     <<695, "W", TRUE>>, <<721, "W", FALSE>>, <<721, "D", TRUE>>,
     <<767, "D", FALSE>>, <<767, "W", TRUE>>, <<793, "W", FALSE>>,
     <<793, "D", TRUE>>, <<849, "D", FALSE>>, <<849, "W", TRUE>>,
     <<875, "W", FALSE>>, <<875, "A", TRUE>>, <<879, "A", FALSE>>,
     <<879, "S", TRUE>>, <<902, "S", FALSE>>, <<902, "A", TRUE>>,
     <<926, "A", FALSE>>, <<926, "S", TRUE>>, <<951, "S", FALSE>>,
     <<951, "W", TRUE>>, <<971, "W", FALSE>>, <<971, "A", TRUE>>,
     <<995, "A", FALSE>>, <<995, "S", TRUE>>, <<1018, "S", FALSE>>,
     <<1018, "A", TRUE>>, <<1042, "A", FALSE>>, <<1042, "W", TRUE>>,
     <<1067, "W", FALSE>>, <<1067, "A", TRUE>>, <<1085, "A", FALSE>>,
     <<1085, "D", TRUE>>, <<1098, "D", FALSE>>, <<1098, "S", TRUE>>,
     <<1121, "S", FALSE>>, <<1121, "D", TRUE>>, <<1122, "D", FALSE>>,
     <<1183, "D", TRUE>>, <<1204, "D", FALSE>>, <<1204, "W", TRUE>>,
     <<1257, "W", FALSE>>, <<1257, "D", TRUE>>, <<1283, "D", FALSE>>,
     <<1283, "W", TRUE>>, <<1308, "W", FALSE>>, <<1308, "D", TRUE>>,
     <<1389, "D", FALSE>>, <<1389, "S", TRUE>>, <<1412, "S", FALSE>>,
     <<1412, "D", TRUE>>, <<1431, "D", FALSE>>, <<1431, "A", TRUE>>,
     <<1433, "A", FALSE>>>>

FruitTicks == 1500
FruitFreeAt == 1440

EnvFruit ==
    [script |-> FruitScript, pc |-> 1, free_from |-> FruitFreeAt,
     free_to |-> FruitFreeAt + FreeSpan, free_keys |-> {"W", "LEFT", "ESCAPE"},
     budget |-> FreeBudget, max_tick |-> FruitTicks]

InitFruit == ProgInit(EnvFruit)

SpecFruit == InitFruit /\ [][Next]_vars

-----------------------------------------------------------------------------
(* The claims about the actors.  They are stated over the state that a     *)
(* step leaves behind; obs tells what the step did.                        *)

LegalGhostStates ==
    {GHOSTSTATE_HOUSE, GHOSTSTATE_LEAVEHOUSE, GHOSTSTATE_SCATTER, GHOSTSTATE_CHASE,
     GHOSTSTATE_FRIGHTENED, GHOSTSTATE_EYES, GHOSTSTATE_ENTERHOUSE}

\* C4: in every tick in which the actors are updated, each ghost's state is
\* one of the 7 states HOUSE, LEAVEHOUSE, SCATTER, CHASE, FRIGHTENED, EYES,
\* ENTERHOUSE (never GHOSTSTATE_NONE), both when the tick begins and after
\* the transitions that game_update_ghost_state and the eat-ghost collision
\* have made in it
C4_GhostStatesLegal ==
    obs.updated =>
        \A g \in 1 .. NUM_GHOSTS :
            /\ obs.pre.ghost_state[g] \in LegalGhostStates
            /\ game.ghost[g].state \in LegalGhostStates

\* a tick in which Pacman has eaten a frightened ghost (it is in EYES now)
\* while another ghost is frightened and a third one is in the house
C4_Witness ==
    /\ obs.updated
    /\ \E g \in 1 .. NUM_GHOSTS :
           obs.pre.ghost_state[g] = GHOSTSTATE_FRIGHTENED /\ game.ghost[g].state = GHOSTSTATE_EYES
    /\ \E g \in 1 .. NUM_GHOSTS : game.ghost[g].state = GHOSTSTATE_FRIGHTENED
    /\ \E g \in 1 .. NUM_GHOSTS : game.ghost[g].state = GHOSTSTATE_HOUSE

PacmanTile(which) == pixel_to_tile_pos(game[which].actor.pos)

GhostTile(g) == pixel_to_tile_pos(game.ghost[g].actor.pos)

\* C5: the tile that holds a Pacman's pixel position is never a blocking
\* tile, and the tile that holds a ghost's pixel position is a blocking tile
\* only if the ghost is in HOUSE, LEAVEHOUSE or ENTERHOUSE and the tile is a
\* ghost-house door tile
C5_NoActorInWall ==
    /\ \A which \in {"pacman1", "pacman2"} : ~is_blocking_tile(St, PacmanTile(which))
    /\ \A g \in 1 .. NUM_GHOSTS :
           is_blocking_tile(St, GhostTile(g)) =>
               /\ game.ghost[g].state \in
                      {GHOSTSTATE_HOUSE, GHOSTSTATE_LEAVEHOUSE, GHOSTSTATE_ENTERHOUSE}
               /\ tile_code_at(St, GhostTile(g)) = TILE_DOOR

\* a ghost leaving the house stands on a door tile while a Pacman has moved
\* off its starting position
C5_Witness ==
    /\ obs.updated
    /\ \E g \in 1 .. NUM_GHOSTS :
           /\ game.ghost[g].state = GHOSTSTATE_LEAVEHOUSE
           /\ tile_code_at(St, GhostTile(g)) = TILE_DOOR
    /\ PacmanTile("pacman2") # i2(13, 26)

\* C6: a move step wraps x only as 0 -> 223 when moving left or 223 -> 0
\* when moving right, and only for an actor on the tunnel row (y = 17)
C6_WrapOnlyInTunnel ==
    \A w \in obs.wraps :
        /\ \/ (w.from.x = 0) /\ (w.dir = DIR_LEFT) /\ (w.to.x = DISPLAY_PIXELS_X - 1)
           \/ (w.from.x = DISPLAY_PIXELS_X - 1) /\ (w.dir = DIR_RIGHT) /\ (w.to.x = 0)
        /\ pixel_to_tile_pos(w.from).y = 17
        /\ pixel_to_tile_pos(w.to).y = 17

\* Pacman has left the screen on the left of the tunnel
C6_Witness ==
    \E w \in obs.wraps :
        (w.who = "pacman2") /\ (w.dir = DIR_LEFT) /\ (w.to.x = DISPLAY_PIXELS_X - 1)

\* C7, as claimed: global_dot_counter_active changes only in a step that
\* runs a round init or a game init, and it becomes true only in a round
\* init that follows a life loss
C7_FlagOnlyAtInit ==
    (game.global_dot_counter_active # obs.pre.global_dot_counter_active) =>
        /\ obs.round_init \/ obs.game_init
        /\ game.global_dot_counter_active => (obs.round_init /\ obs.pre.lost_life)

\* C7, amended: global_dot_counter_active becomes true only in a round init
\* that follows a life loss; it becomes false in a round init or game init,
\* and also in the middle of a round, in the tick in which the global dot
\* counter reaches 32 while Clyde is in the house (Clyde then leaves it)
C7_FlagAtInitOrClyde ==
    (game.global_dot_counter_active # obs.pre.global_dot_counter_active) =>
        IF game.global_dot_counter_active
        THEN obs.round_init /\ obs.pre.lost_life
        ELSE \/ obs.round_init
             \/ obs.game_init
             \/ /\ obs.updated
                /\ game.global_dot_counter = 32
                /\ obs.pre.ghost_state[GHOSTTYPE_CLYDE + 1] = GHOSTSTATE_HOUSE
                /\ game.ghost[GHOSTTYPE_CLYDE + 1].state = GHOSTSTATE_LEAVEHOUSE

\* the flag is switched on by the round init after a life loss, and it is
\* switched off in the middle of the round
C7_Witness ==
    \/ /\ obs.round_init
       /\ obs.pre.lost_life
       /\ game.global_dot_counter_active
       /\ ~obs.pre.global_dot_counter_active
    \/ /\ obs.updated
       /\ ~obs.round_init
       /\ ~game.global_dot_counter_active
       /\ obs.pre.global_dot_counter_active
       /\ env.pc > Len(env.script)

\* the points of the ghosts eaten in one tick
RECURSIVE PointsOf(_)
PointsOf(eaten) == IF eaten = <<>> THEN 0 ELSE Head(eaten).delta + PointsOf(Tail(eaten))

\* now(dot_eaten) holds in the tick after the last dot was eaten and in no
\* other tick
DotEatenNowOnce ==
    (obs.last_dot >= 0) =>
        (now(game.dot_eaten, timing.tick) <=> (timing.tick = obs.last_dot + 1))

\* C8, as claimed: a tick T in which Pacman's tile holds a dot leaves the
\* tile TILE_SPACE, score increased by exactly 1 and num_dots_eaten by
\* exactly 1, and now(dot_eaten) holds at tick T + 1 and at no other tick
\* until the next dot is eaten
C8_DotScoresOne ==
    /\ obs.dot =>
           /\ tile_code_at(St, obs.dot_pos) = TILE_SPACE
           /\ game.score = obs.pre.score + 1
           /\ game.num_dots_eaten = obs.pre.num_dots_eaten + 1
    /\ DotEatenNowOnce

\* C8, amended: a tick T in which Pacman's tile holds a dot leaves the tile
\* TILE_SPACE, score increased by 1 plus the points of the ghosts that
\* Pacman has eaten in the same tick, and num_dots_eaten by exactly 1, and
\* now(dot_eaten) holds at tick T + 1 and at no other tick until the next
\* dot is eaten
C8_DotScoresOnePlusGhosts ==
    /\ obs.dot =>
           /\ tile_code_at(St, obs.dot_pos) = TILE_SPACE
           /\ game.score = obs.pre.score + 1 + PointsOf(obs.eaten)
           /\ game.num_dots_eaten = obs.pre.num_dots_eaten + 1
    /\ DotEatenNowOnce

\* Pacman eats a dot and, in the same tick, a frightened ghost on that tile
C8_Witness ==
    /\ obs.dot
    /\ obs.eaten # <<>>
    /\ game.score = obs.pre.score + 1 + Head(obs.eaten).delta
    /\ game.dot_eaten = timing.tick + 1

\* C9: a ghost that was in SCATTER or CHASE when a pill was eaten at tick T,
\* and that has not been eaten since, with no further pill eaten (and no new
\* round begun), is FRIGHTENED at every ghost update in the ticks T + 1 ..
\* T + F, F the fright_ticks of the round, and at its first update after
\* tick T + F its state is that of the scatter/chase phase clock
C9_FrightWindow ==
    obs.updated =>
        \A g \in 1 .. NUM_GHOSTS :
            /\ ((obs.fright[g].T >= 0)
                    /\ (timing.tick >= obs.fright[g].T + 1)
                    /\ (timing.tick <= obs.fright[g].T + obs.fright[g].F))
               => (game.ghost[g].state = GHOSTSTATE_FRIGHTENED)
            /\ ((g - 1) \in obs.first_after)
               => (game.ghost[g].state = game_scatter_chase_phase(St))

\* C10: the k-th ghost eaten since the last pill (k = 1..4) adds exactly
\* 10 * 2^k to the score: 20, 40, 80, 160
C10_GhostPointsDouble ==
    \A i \in DOMAIN obs.eaten :
        (obs.eaten[i].k \in 1 .. 4) => (obs.eaten[i].delta = 10 * (2 ^ obs.eaten[i].k))

-----------------------------------------------------------------------------
(* A won round.                                                            *)

\* The win: player two (cursor keys) clears the maze without losing a
\* life; the last dot is eaten at tick 3419, the round init of round 1
\* runs at tick 3660 and the actors move again from tick 3790.
WinScript ==
  <<<<1, "LEFT", TRUE>>, <<2, "LEFT", FALSE>>, <<282, "RIGHT", TRUE>>,
     <<351, "RIGHT", FALSE>>, <<351, "DOWN", TRUE>>, <<377, "DOWN", FALSE>>,
     <<377, "RIGHT", TRUE>>, <<423, "RIGHT", FALSE>>, <<423, "DOWN", TRUE>>,
     <<449, "DOWN", FALSE>>, <<449, "LEFT", TRUE>>, <<695, "LEFT", FALSE>>,
     <<695, "UP", TRUE>>, <<721, "UP", FALSE>>, <<721, "RIGHT", TRUE>>,
     <<767, "RIGHT", FALSE>>, <<767, "UP", TRUE>>, <<793, "UP", FALSE>>,
     <<793, "RIGHT", TRUE>>, <<849, "RIGHT", FALSE>>, <<849, "UP", TRUE>>,
     <<875, "UP", FALSE>>, <<875, "DOWN", TRUE>>, <<879, "DOWN", FALSE>>,
     <<879, "UP", TRUE>>, <<883, "UP", FALSE>>, <<883, "LEFT", TRUE>>,
     <<939, "LEFT", FALSE>>, <<939, "DOWN", TRUE>>, <<955, "DOWN", FALSE>>,
     <<955, "UP", TRUE>>, <<966, "UP", FALSE>>, <<966, "LEFT", TRUE>>,
     <<1013, "LEFT", FALSE>>, <<1013, "DOWN", TRUE>>,
     <<1039, "DOWN", FALSE>>, <<1039, "RIGHT", TRUE>>,
     <<1057, "RIGHT", FALSE>>, <<1057, "DOWN", TRUE>>,
     <<1083, "DOWN", FALSE>>, <<1083, "RIGHT", TRUE>>,
     <<1106, "RIGHT", FALSE>>, <<1106, "UP", TRUE>>, <<1130, "UP", FALSE>>,
     <<1130, "RIGHT", TRUE>>, <<1153, "RIGHT", FALSE>>,
     <<1153, "DOWN", TRUE>>, <<1238, "DOWN", FALSE>>,
     <<1238, "RIGHT", TRUE>>, <<1265, "RIGHT", FALSE>>,
     <<1265, "DOWN", TRUE>>, <<1291, "DOWN", FALSE>>,
     <<1291, "RIGHT", TRUE>>, <<1314, "RIGHT", FALSE>>, <<1314, "UP", TRUE>>,
     <<1339, "UP", FALSE>>, <<1339, "RIGHT", TRUE>>,
     <<1365, "RIGHT", FALSE>>, <<1365, "UP", TRUE>>, <<1393, "UP", FALSE>>,
     <<1393, "RIGHT", TRUE>>, <<1415, "RIGHT", FALSE>>, <<1415, "UP", TRUE>>,
     <<1441, "UP", FALSE>>, <<1441, "RIGHT", TRUE>>,
     <<1487, "RIGHT", FALSE>>, <<1487, "DOWN", TRUE>>,
     <<1513, "DOWN", FALSE>>, <<1513, "LEFT", TRUE>>,
     <<1532, "LEFT", FALSE>>, <<1532, "DOWN", TRUE>>,
     <<1558, "DOWN", FALSE>>, <<1558, "LEFT", TRUE>>,
     <<1582, "LEFT", FALSE>>, <<1582, "UP", TRUE>>, <<1634, "UP", FALSE>>,
     <<1634, "LEFT", TRUE>>, <<1689, "LEFT", FALSE>>, <<1689, "DOWN", TRUE>>,
     <<1705, "DOWN", FALSE>>, <<1705, "UP", TRUE>>, <<1716, "UP", FALSE>>,
     <<1716, "RIGHT", TRUE>>, <<1766, "RIGHT", FALSE>>, <<1766, "UP", TRUE>>,
     <<1883, "UP", FALSE>>, <<1883, "RIGHT", TRUE>>,
     <<1929, "RIGHT", FALSE>>, <<1929, "UP", TRUE>>, <<1955, "UP", FALSE>>,
     <<1955, "LEFT", TRUE>>, <<2003, "LEFT", FALSE>>, <<2003, "DOWN", TRUE>>,
     <<2019, "DOWN", FALSE>>, <<2019, "UP", TRUE>>, <<2030, "UP", FALSE>>,
     <<2030, "LEFT", TRUE>>, <<2057, "LEFT", FALSE>>, <<2057, "DOWN", TRUE>>,
     <<2083, "DOWN", FALSE>>, <<2083, "LEFT", TRUE>>,
     <<2110, "LEFT", FALSE>>, <<2110, "DOWN", TRUE>>,
     <<2134, "DOWN", FALSE>>, <<2134, "LEFT", TRUE>>,
     <<2158, "LEFT", FALSE>>, <<2158, "UP", TRUE>>, <<2182, "UP", FALSE>>,
     <<2182, "LEFT", TRUE>>, <<2209, "LEFT", FALSE>>, <<2209, "UP", TRUE>>,
     <<2235, "UP", FALSE>>, <<2235, "RIGHT", TRUE>>,
     <<2307, "RIGHT", FALSE>>, <<2307, "LEFT", TRUE>>,
     <<2313, "LEFT", FALSE>>, <<2313, "UP", TRUE>>, <<2349, "UP", FALSE>>,
     <<2349, "RIGHT", TRUE>>, <<2455, "RIGHT", FALSE>>,
     <<2455, "DOWN", TRUE>>, <<2492, "DOWN", FALSE>>, <<2492, "LEFT", TRUE>>,
     <<2534, "LEFT", FALSE>>, <<2534, "UP", TRUE>>, <<2561, "UP", FALSE>>,
     <<2561, "DOWN", TRUE>>, <<2581, "DOWN", FALSE>>, <<2581, "LEFT", TRUE>>,
     <<2722, "LEFT", FALSE>>, <<2722, "UP", TRUE>>, <<2757, "UP", FALSE>>,
     <<2757, "LEFT", TRUE>>, <<2815, "LEFT", FALSE>>, <<2815, "DOWN", TRUE>>,
     <<2851, "DOWN", FALSE>>, <<2851, "RIGHT", TRUE>>,
     <<2867, "RIGHT", FALSE>>, <<2867, "LEFT", TRUE>>,
     <<2878, "LEFT", FALSE>>, <<2878, "DOWN", TRUE>>,
     <<2974, "DOWN", FALSE>>, <<2974, "UP", TRUE>>, <<3030, "UP", FALSE>>,
     <<3030, "LEFT", TRUE>>, <<3077, "LEFT", FALSE>>, <<3077, "UP", TRUE>>,
     <<3105, "UP", FALSE>>, <<3105, "RIGHT", TRUE>>,
     <<3141, "RIGHT", FALSE>>, <<3141, "LEFT", TRUE>>,
     <<3171, "LEFT", FALSE>>, <<3171, "UP", TRUE>>, <<3209, "UP", FALSE>>,
     <<3209, "RIGHT", TRUE>>, <<3255, "RIGHT", FALSE>>,
     <<3255, "DOWN", TRUE>>, <<3419, "DOWN", FALSE>>>>

WinTicks == 3940
WinFreeAt == 3417

EnvWin ==
    [script |-> WinScript, pc |-> 1, free_from |-> WinFreeAt,
     free_to |-> WinFreeAt + FreeSpan, free_keys |-> {"UP", "S", "ESCAPE"},
     budget |-> FreeBudget, max_tick |-> WinTicks]

InitWin == ProgInit(EnvWin)

SpecWin == InitWin /\ [][Next]_vars

-----------------------------------------------------------------------------
(* A missed force-leave timeout.                                           *)

\* Player two eats 23 dots (the last at tick 549), a pill at tick 662 and
\* no dot afterwards.  The force-leave timer releases Inky at tick 790 and
\* is armed again for tick 791; Inky is eaten at tick 1001, and the freeze
\* of ticks 1002 .. 1061 covers tick 1031 = 791 + 240.
StuckScript ==
  <<<<1, "LEFT", TRUE>>, <<2, "LEFT", FALSE>>, <<282, "LEFT", TRUE>>, <<353,
     "LEFT", FALSE>>, <<353, "UP", TRUE>>, <<439, "UP", FALSE>>, <<439, "DOWN",
     TRUE>>, <<486, "DOWN", FALSE>>, <<486, "LEFT", TRUE>>, <<533, "LEFT",
     FALSE>>, <<533, "DOWN", TRUE>>, <<549, "DOWN", FALSE>>, <<549, "UP",
     TRUE>>, <<561, "UP", FALSE>>, <<640, "DOWN", TRUE>>, <<662, "DOWN",
     FALSE>>, <<662, "UP", TRUE>>, <<684, "UP", FALSE>>, <<684, "RIGHT",
     TRUE>>, <<725, "RIGHT", FALSE>>, <<725, "UP", TRUE>>, <<777, "UP",
     FALSE>>, <<777, "RIGHT", TRUE>>, <<799, "RIGHT", FALSE>>, <<800, "DOWN",
     TRUE>>, <<822, "DOWN", FALSE>>, <<822, "RIGHT", TRUE>>, <<900, "RIGHT",
     FALSE>>, <<900, "LEFT", TRUE>>, <<901, "LEFT", FALSE>>, <<901, "RIGHT",
     TRUE>>, <<902, "RIGHT", FALSE>>, <<902, "DOWN", TRUE>>, <<905, "DOWN",
     FALSE>>, <<905, "LEFT", TRUE>>, <<906, "LEFT", FALSE>>, <<906, "DOWN",
     TRUE>>, <<907, "DOWN", FALSE>>, <<907, "LEFT", TRUE>>, <<908, "LEFT",
     FALSE>>, <<908, "DOWN", TRUE>>, <<909, "DOWN", FALSE>>, <<909, "LEFT",
     TRUE>>, <<910, "LEFT", FALSE>>, <<910, "DOWN", TRUE>>, <<913, "DOWN",
     FALSE>>, <<913, "LEFT", TRUE>>, <<915, "LEFT", FALSE>>, <<915, "DOWN",
     TRUE>>, <<916, "DOWN", FALSE>>, <<916, "LEFT", TRUE>>, <<918, "LEFT",
     FALSE>>, <<918, "DOWN", TRUE>>, <<920, "DOWN", FALSE>>, <<920, "LEFT",
     TRUE>>, <<921, "LEFT", FALSE>>, <<921, "DOWN", TRUE>>, <<922, "DOWN",
     FALSE>>, <<922, "LEFT", TRUE>>, <<923, "LEFT", FALSE>>, <<923, "DOWN",
     TRUE>>, <<924, "DOWN", FALSE>>, <<924, "LEFT", TRUE>>, <<925, "LEFT",
     FALSE>>, <<925, "DOWN", TRUE>>, <<926, "DOWN", FALSE>>, <<926, "LEFT",
     TRUE>>, <<929, "LEFT", FALSE>>, <<929, "RIGHT", TRUE>>, <<930, "RIGHT",
     FALSE>>, <<930, "DOWN", TRUE>>, <<931, "DOWN", FALSE>>, <<931, "LEFT",
     TRUE>>, <<932, "LEFT", FALSE>>, <<932, "DOWN", TRUE>>, <<934, "DOWN",
     FALSE>>, <<934, "LEFT", TRUE>>, <<938, "LEFT", FALSE>>, <<938, "RIGHT",
     TRUE>>, <<939, "RIGHT", FALSE>>, <<939, "LEFT", TRUE>>, <<940, "LEFT",
     FALSE>>, <<940, "RIGHT", TRUE>>, <<941, "RIGHT", FALSE>>, <<941, "DOWN",
     TRUE>>, <<942, "DOWN", FALSE>>, <<942, "LEFT", TRUE>>, <<945, "LEFT",
     FALSE>>, <<945, "RIGHT", TRUE>>, <<946, "RIGHT", FALSE>>, <<946, "DOWN",
     TRUE>>, <<947, "DOWN", FALSE>>, <<947, "LEFT", TRUE>>, <<949, "LEFT",
     FALSE>>, <<949, "RIGHT", TRUE>>, <<950, "RIGHT", FALSE>>, <<950, "LEFT",
     TRUE>>, <<951, "LEFT", FALSE>>, <<951, "RIGHT", TRUE>>, <<953, "RIGHT",
     FALSE>>, <<953, "LEFT", TRUE>>, <<954, "LEFT", FALSE>>, <<954, "RIGHT",
     TRUE>>, <<955, "RIGHT", FALSE>>, <<955, "LEFT", TRUE>>, <<956, "LEFT",
     FALSE>>, <<956, "RIGHT", TRUE>>, <<957, "RIGHT", FALSE>>, <<957, "DOWN",
     TRUE>>, <<958, "DOWN", FALSE>>, <<958, "LEFT", TRUE>>, <<959, "LEFT",
     FALSE>>, <<959, "DOWN", TRUE>>, <<960, "DOWN", FALSE>>, <<960, "LEFT",
     TRUE>>, <<961, "LEFT", FALSE>>, <<961, "RIGHT", TRUE>>, <<962, "RIGHT",
     FALSE>>, <<962, "LEFT", TRUE>>, <<963, "LEFT", FALSE>>, <<963, "RIGHT",
     TRUE>>, <<964, "RIGHT", FALSE>>, <<964, "LEFT", TRUE>>, <<965, "LEFT",
     FALSE>>, <<965, "RIGHT", TRUE>>, <<966, "RIGHT", FALSE>>, <<966, "LEFT",
     TRUE>>, <<969, "LEFT", FALSE>>, <<969, "RIGHT", TRUE>>, <<970, "RIGHT",
     FALSE>>, <<970, "LEFT", TRUE>>, <<971, "LEFT", FALSE>>, <<971, "RIGHT",
     TRUE>>, <<973, "RIGHT", FALSE>>, <<973, "UP", TRUE>>, <<1062, "UP",
     FALSE>>>>

StuckTicks == 1090
StuckFreeAt == 1063

EnvStuck ==
    [script |-> StuckScript, pc |-> 1, free_from |-> StuckFreeAt,
     free_to |-> StuckFreeAt + FreeSpan, free_keys |-> {"UP", "LEFT", "S"},
     budget |-> FreeBudget, max_tick |-> StuckTicks]

InitStuck == ProgInit(EnvStuck)

SpecStuck == InitStuck /\ [][Next]_vars

-----------------------------------------------------------------------------
(* A death on the last dot, and a game played to its end.                  *)

\* Player two clears the maze as in WinScript but for the dot of tile
\* (6,22), waits above it and eats it at tick 3919 with Inky on the same
\* tile.  Round 1 starts at tick 4160; from then on no key changes, and
\* Pacman is eaten at ticks 5037, 6123, 7209, 8295, 9382 and 10469, the
\* last time with no life left.
OverScript ==
  <<<<1, "LEFT", TRUE>>, <<2, "LEFT", FALSE>>, <<282, "RIGHT", TRUE>>, <<351,
     "RIGHT", FALSE>>, <<351, "DOWN", TRUE>>, <<377, "DOWN", FALSE>>, <<377,
     "RIGHT", TRUE>>, <<423, "RIGHT", FALSE>>, <<423, "DOWN", TRUE>>, <<449,
     "DOWN", FALSE>>, <<449, "LEFT", TRUE>>, <<695, "LEFT", FALSE>>, <<695,
     "UP", TRUE>>, <<721, "UP", FALSE>>, <<721, "RIGHT", TRUE>>, <<767,
     "RIGHT", FALSE>>, <<767, "UP", TRUE>>, <<793, "UP", FALSE>>, <<793,
     "RIGHT", TRUE>>, <<849, "RIGHT", FALSE>>, <<849, "UP", TRUE>>, <<875,
     "UP", FALSE>>, <<875, "DOWN", TRUE>>, <<879, "DOWN", FALSE>>, <<879, "UP",
     TRUE>>, <<883, "UP", FALSE>>, <<883, "LEFT", TRUE>>, <<939, "LEFT",
     FALSE>>, <<939, "DOWN", TRUE>>, <<955, "DOWN", FALSE>>, <<955, "UP",
     TRUE>>, <<966, "UP", FALSE>>, <<966, "LEFT", TRUE>>, <<1013, "LEFT",
     FALSE>>, <<1013, "DOWN", TRUE>>, <<1039, "DOWN", FALSE>>, <<1039, "RIGHT",
     TRUE>>, <<1057, "RIGHT", FALSE>>, <<1057, "DOWN", TRUE>>, <<1083, "DOWN",
     FALSE>>, <<1083, "RIGHT", TRUE>>, <<1106, "RIGHT", FALSE>>, <<1106, "UP",
     TRUE>>, <<1130, "UP", FALSE>>, <<1130, "RIGHT", TRUE>>, <<1153, "RIGHT",
     FALSE>>, <<1153, "DOWN", TRUE>>, <<1238, "DOWN", FALSE>>, <<1238, "RIGHT",
     TRUE>>, <<1265, "RIGHT", FALSE>>, <<1265, "DOWN", TRUE>>, <<1291, "DOWN",
     FALSE>>, <<1291, "RIGHT", TRUE>>, <<1314, "RIGHT", FALSE>>, <<1314, "UP",
     TRUE>>, <<1339, "UP", FALSE>>, <<1339, "RIGHT", TRUE>>, <<1365, "RIGHT",
     FALSE>>, <<1365, "UP", TRUE>>, <<1393, "UP", FALSE>>, <<1393, "RIGHT",
     TRUE>>, <<1415, "RIGHT", FALSE>>, <<1415, "UP", TRUE>>, <<1441, "UP",
     FALSE>>, <<1441, "RIGHT", TRUE>>, <<1487, "RIGHT", FALSE>>, <<1487,
     "DOWN", TRUE>>, <<1513, "DOWN", FALSE>>, <<1513, "LEFT", TRUE>>, <<1532,
     "LEFT", FALSE>>, <<1532, "DOWN", TRUE>>, <<1558, "DOWN", FALSE>>, <<1558,
     "LEFT", TRUE>>, <<1582, "LEFT", FALSE>>, <<1582, "UP", TRUE>>, <<1634,
     "UP", FALSE>>, <<1634, "LEFT", TRUE>>, <<1689, "LEFT", FALSE>>, <<1689,
     "DOWN", TRUE>>, <<1705, "DOWN", FALSE>>, <<1705, "UP", TRUE>>, <<1716,
     "UP", FALSE>>, <<1716, "RIGHT", TRUE>>, <<1766, "RIGHT", FALSE>>, <<1766,
     "UP", TRUE>>, <<1883, "UP", FALSE>>, <<1883, "RIGHT", TRUE>>, <<1929,
     "RIGHT", FALSE>>, <<1929, "UP", TRUE>>, <<1955, "UP", FALSE>>, <<1955,
     "LEFT", TRUE>>, <<2003, "LEFT", FALSE>>, <<2003, "DOWN", TRUE>>, <<2019,
     "DOWN", FALSE>>, <<2019, "UP", TRUE>>, <<2030, "UP", FALSE>>, <<2030,
     "LEFT", TRUE>>, <<2057, "LEFT", FALSE>>, <<2057, "DOWN", TRUE>>, <<2083,
     "DOWN", FALSE>>, <<2083, "LEFT", TRUE>>, <<2110, "LEFT", FALSE>>, <<2110,
     "DOWN", TRUE>>, <<2134, "DOWN", FALSE>>, <<2134, "LEFT", TRUE>>, <<2158,
     "LEFT", FALSE>>, <<2158, "UP", TRUE>>, <<2182, "UP", FALSE>>, <<2182,
     "LEFT", TRUE>>, <<2209, "LEFT", FALSE>>, <<2209, "UP", TRUE>>, <<2235,
     "UP", FALSE>>, <<2235, "RIGHT", TRUE>>, <<2307, "RIGHT", FALSE>>, <<2307,
     "LEFT", TRUE>>, <<2313, "LEFT", FALSE>>, <<2313, "UP", TRUE>>, <<2349,
     "UP", FALSE>>, <<2349, "RIGHT", TRUE>>, <<2455, "RIGHT", FALSE>>, <<2455,
     "DOWN", TRUE>>, <<2492, "DOWN", FALSE>>, <<2492, "LEFT", TRUE>>, <<2534,
     "LEFT", FALSE>>, <<2534, "UP", TRUE>>, <<2561, "UP", FALSE>>, <<2561,
     "DOWN", TRUE>>, <<2581, "DOWN", FALSE>>, <<2581, "LEFT", TRUE>>, <<2722,
     "LEFT", FALSE>>, <<2722, "UP", TRUE>>, <<2757, "UP", FALSE>>, <<2757,
     "LEFT", TRUE>>, <<2815, "LEFT", FALSE>>, <<2815, "DOWN", TRUE>>, <<2851,
     "DOWN", FALSE>>, <<2851, "RIGHT", TRUE>>, <<2867, "RIGHT", FALSE>>,
     <<2867, "LEFT", TRUE>>, <<2878, "LEFT", FALSE>>, <<2878, "DOWN", TRUE>>,
     <<2974, "DOWN", FALSE>>, <<2974, "UP", TRUE>>, <<3030, "UP", FALSE>>,
     <<3030, "LEFT", TRUE>>, <<3077, "LEFT", FALSE>>, <<3077, "UP", TRUE>>,
     <<3105, "UP", FALSE>>, <<3105, "RIGHT", TRUE>>, <<3141, "RIGHT", FALSE>>,
     <<3141, "LEFT", TRUE>>, <<3171, "LEFT", FALSE>>, <<3171, "UP", TRUE>>,
     <<3209, "UP", FALSE>>, <<3209, "RIGHT", TRUE>>, <<3255, "RIGHT", FALSE>>,
     <<3255, "DOWN", TRUE>>, <<3409, "UP", TRUE>>, <<3419, "UP", FALSE>>,
     <<3423, "UP", TRUE>>, <<3433, "UP", FALSE>>, <<3434, "UP", TRUE>>, <<3437,
     "UP", FALSE>>, <<3452, "UP", TRUE>>, <<3453, "UP", FALSE>>, <<3516, "UP",
     TRUE>>, <<3531, "UP", FALSE>>, <<3540, "UP", TRUE>>, <<3553, "UP",
     FALSE>>, <<3564, "UP", TRUE>>, <<3575, "UP", FALSE>>, <<3584, "UP",
     TRUE>>, <<3591, "UP", FALSE>>, <<3600, "UP", TRUE>>, <<3606, "UP",
     FALSE>>, <<3614, "UP", TRUE>>, <<3621, "UP", FALSE>>, <<3629, "UP",
     TRUE>>, <<3634, "UP", FALSE>>, <<3644, "UP", TRUE>>, <<3662, "UP",
     FALSE>>, <<3673, "UP", TRUE>>, <<3681, "UP", FALSE>>, <<3693, "UP",
     TRUE>>, <<3699, "UP", FALSE>>, <<3704, "UP", TRUE>>, <<3709, "UP",
     FALSE>>, <<3717, "UP", TRUE>>, <<3724, "UP", FALSE>>, <<3734, "UP",
     TRUE>>, <<3745, "UP", FALSE>>, <<3748, "UP", TRUE>>, <<3754, "UP",
     FALSE>>, <<3764, "UP", TRUE>>, <<3773, "UP", FALSE>>, <<3778, "UP",
     TRUE>>, <<3785, "UP", FALSE>>, <<3794, "UP", TRUE>>, <<3804, "UP",
     FALSE>>, <<3813, "UP", TRUE>>, <<3820, "UP", FALSE>>, <<3833, "UP",
     TRUE>>, <<3849, "UP", FALSE>>, <<3857, "UP", TRUE>>, <<3862, "UP",
     FALSE>>, <<3866, "UP", TRUE>>, <<3872, "UP", FALSE>>, <<3885, "UP",
     TRUE>>, <<3897, "UP", FALSE>>>>

OverTicks == 10900
OverFreeAt == 10470

EnvOver ==
    [script |-> OverScript, pc |-> 1, free_from |-> OverFreeAt,
     free_to |-> OverFreeAt + FreeSpan, free_keys |-> {"UP", "S", "ESCAPE"},
     budget |-> FreeBudget, max_tick |-> OverTicks]

InitOver == ProgInit(EnvOver)

SpecOver == InitOver /\ [][Next]_vars

-----------------------------------------------------------------------------
(* The claims about the counters, the round sequence and the ghost house.  *)

-----------------------------------------------------------------------------
(* The scatter/chase phase clock on its own: round_started is armed as     *)
(* game_tick arms it, the tick counter advances, and the freeze mask and   *)
(* the ghosts' frightened triggers change meanwhile.  obs.F is the tick at *)
(* which round_started fires (-1: not armed).                              *)

MaxPhaseTick == 5300
MaxPhaseArm == 1

PhaseInit ==
    /\ gamestate = GAMESTATE_GAME
    /\ timing = StateInit.timing
    /\ intro = StateInit.intro
    /\ game = [StateInit.game EXCEPT !.round_started = disabled_timer]
    /\ input1 = StateInit.input1
    /\ input2 = StateInit.input2
    /\ gfx = StateInit.gfx
    /\ build = "RL"
    /\ env = EnvFree
    /\ obs = [kind |-> "phase", F |-> -1]

\* start_after(&state.game.round_started, 2*60+10)
PhaseArm ==
    /\ timing.tick <= MaxPhaseArm
    /\ game' = [game EXCEPT !.round_started = start_after(2*60 + 10, timing.tick)]
    /\ obs' = [obs EXCEPT !.F = timing.tick + 2*60 + 10]
    /\ UNCHANGED <<gamestate, timing, intro, input1, input2, gfx, build, env>>

\* state.game.freeze |= FREEZETYPE_EAT_GHOST, and its end
PhaseFreeze ==
    /\ game' = [game EXCEPT !.freeze = IF FREEZETYPE_EAT_GHOST \in @
                                       THEN @ \ {FREEZETYPE_EAT_GHOST}
                                       ELSE @ \cup {FREEZETYPE_EAT_GHOST}]
    /\ UNCHANGED <<gamestate, timing, intro, input1, input2, gfx, build, env, obs>>

\* start(&state.game.ghost[i].frightened) for all ghosts
PhaseFrighten ==
    /\ timing.tick <= MaxPhaseArm
    /\ game' = frighten_ghosts(St).game
    /\ UNCHANGED <<gamestate, timing, intro, input1, input2, gfx, build, env, obs>>

\* state.timing.tick++
PhaseTick ==
    /\ timing.tick < MaxPhaseTick
    /\ timing' = [timing EXCEPT !.tick = UAdd(@, 1)]
    /\ UNCHANGED <<gamestate, intro, game, input1, input2, gfx, build, env, obs>>

PhaseNext == PhaseArm \/ PhaseFreeze \/ PhaseFrighten \/ PhaseTick

SpecPhase == PhaseInit /\ [][PhaseNext]_vars

\* the scatter phases, in ticks since round_started fired
ScatterTicks ==
    (0 .. 419) \cup (1620 .. 2039) \cup (3240 .. 3539) \cup (4740 .. 5039)

\* C13: with t the ticks since round_started fired, the phase clock is
\* SCATTER exactly for t in [0,420), [1620,2040), [3240,3540) and
\* [4740,5040) and CHASE for every other t, whatever the freeze mask and
\* the frightened triggers are
C13_PhaseClock ==
    ((obs.F >= 0) /\ (timing.tick >= obs.F)) =>
        (game_scatter_chase_phase(St) =
            IF (timing.tick - obs.F) \in ScatterTicks
            THEN GHOSTSTATE_SCATTER
            ELSE GHOSTSTATE_CHASE)

\* the last scatter phase, in a frozen tick with the ghosts' frightened
\* triggers armed
C13_Witness ==
    /\ obs.F >= 0
    /\ timing.tick - obs.F = 4740
    /\ game_scatter_chase_phase(St) = GHOSTSTATE_SCATTER
    /\ FREEZETYPE_EAT_GHOST \in game.freeze
    /\ game.ghost[1].frightened # DISABLED_TICKS


\* C14: the force-leave timer releases a ghost from the house 240 ticks after
\* it was last armed, whatever freezes occur in between: whenever the actors
\* have been updated in a game tick and a ghost is still in state HOUSE, the
\* timer is armed and at most 240 ticks have passed since it was armed
C14_ForceLeave ==
    ((gamestate = GAMESTATE_GAME) /\ obs.updated
        /\ (\E g \in 1 .. NUM_GHOSTS : game.ghost[g].state = GHOSTSTATE_HOUSE))
        => /\ game.force_leave_house # DISABLED_TICKS
           /\ timing.tick - game.force_leave_house <= 4 * 60

\* a round init or a game over is due: Pacman was eaten 210 ticks ago, in
\* this game and with no round init since
DeathDue ==
    /\ gamestate = GAMESTATE_GAME
    /\ obs.pre.death.tick >= 0
    /\ timing.tick = obs.pre.death.tick + PACMAN_EATEN_TICKS + PACMAN_DEATH_TICKS

\* what the death leads to, 210 ticks later: game over without a life
\* left, else a round init that takes one life and keeps score and round
DeathOutcome ==
    IF obs.pre.death.num_lives > 0
    THEN /\ obs.round_init
         /\ game.num_lives = obs.pre.num_lives - 1
         /\ game.num_lives = obs.pre.death.num_lives - 1
         /\ game.score = obs.pre.score
         /\ game.round = obs.pre.round
    ELSE /\ now(game.game_over, timing.tick)
         /\ ~obs.round_init

\* the tick in which a ghost eats Pacman: the freeze and the trigger
DeathTick ==
    obs.died => /\ FREEZETYPE_DEAD \in game.freeze
                /\ game.pacman_eaten = timing.tick + 1
                /\ obs.death = [tick |-> timing.tick, num_lives |-> game.num_lives]

-----------------------------------------------------------------------------
(* The claims about frozen ticks, the maze and the replay of a game.       *)

\* the positions of the maze that hold a tile of the given code
TilesOf(ram, code) ==
    {p \in (1 .. DISPLAY_TILES_X) \X (1 .. DISPLAY_TILES_Y) : ram[p[2]][p[1]] = code}

\* the step is a game tick that found the freeze mask non-empty where
\* game_tick decides about game_update_actors, with no game init and no
\* round init earlier in the tick
FrozenTick ==
    /\ obs'.frozen
    /\ ~obs'.game_init
    /\ ~obs'.round_init

\* the step leaves the actors, the ghost states and targets, the score, the
\* dot counters and the dots and pills of the maze as they are
ActorsUntouched ==
    /\ game'.pacman1 = game.pacman1
    /\ game'.pacman2 = game.pacman2
    /\ \A g \in 1 .. NUM_GHOSTS :
           /\ game'.ghost[g].actor = game.ghost[g].actor
           /\ game'.ghost[g].next_dir = game.ghost[g].next_dir
           /\ game'.ghost[g].state = game.ghost[g].state
           /\ game'.ghost[g].target_pos = game.ghost[g].target_pos
           /\ game'.ghost[g].dot_counter = game.ghost[g].dot_counter
    /\ game'.score = game.score
    /\ game'.num_dots_eaten = game.num_dots_eaten
    /\ game'.global_dot_counter = game.global_dot_counter
    /\ TilesOf(gfx'.video_ram, TILE_DOT) = TilesOf(gfx.video_ram, TILE_DOT)
    /\ TilesOf(gfx'.video_ram, TILE_PILL) = TilesOf(gfx.video_ram, TILE_PILL)

\* C16: in a game tick whose freeze mask is non-empty when game_tick comes
\* to the actor update, game_update_actors does not run, and the tick leaves
\* the positions and directions of Pacman and the ghosts, the ghost states
\* and targets, the score, num_dots_eaten, the dot counters and the dots and
\* pills of the maze unchanged, unless a game init or a round init ran
\* earlier in the tick
C16_FrozenTick ==
    [][FrozenTick => (~obs'.updated /\ ActorsUntouched)]_vars

C16_Witness ==
    /\ gamestate = GAMESTATE_GAME
    /\ obs.frozen
    /\ ~obs.round_init
    /\ ~obs.updated
    /\ game.freeze = {FREEZETYPE_EAT_GHOST}
    /\ game.num_dots_eaten > 0

\* the step puts a dot or a pill on a tile that did not hold it, or takes
\* num_dots_eaten back
Restored ==
    \/ ~(TilesOf(gfx'.video_ram, TILE_DOT) \subseteq TilesOf(gfx.video_ram, TILE_DOT))
    \/ ~(TilesOf(gfx'.video_ram, TILE_PILL) \subseteq TilesOf(gfx.video_ram, TILE_PILL))
    \/ game'.num_dots_eaten < game.num_dots_eaten

\* the step is a game init, or the round init after the maze was cleared
DecodeStep ==
    \/ obs'.game_init
    \/ obs'.round_init /\ (game.num_dots_eaten = NUM_DOTS)

\* the step leaves the maze with all its dots and pills and none eaten
Decoded ==
    /\ Cardinality(TilesOf(gfx'.video_ram, TILE_DOT)) = NUM_DOTS - 4
    /\ Cardinality(TilesOf(gfx'.video_ram, TILE_PILL)) = 4
    /\ game'.num_dots_eaten = 0

\* the step changes no tile that is a dot, a pill, a wall or the door
\* before or after it (the texts are written over empty tiles), and keeps
\* num_dots_eaten
MazeKept ==
    /\ game'.num_dots_eaten = game.num_dots_eaten
    /\ \A y \in 1 .. DISPLAY_TILES_Y, x \in 1 .. DISPLAY_TILES_X :
           \/ gfx'.video_ram[y][x] = gfx.video_ram[y][x]
           \/ /\ gfx.video_ram[y][x] \notin {TILE_DOT, TILE_PILL}
              /\ gfx.video_ram[y][x] < 192
              /\ gfx'.video_ram[y][x] \notin {TILE_DOT, TILE_PILL}
              /\ gfx'.video_ram[y][x] < 192

\* C17, as claimed: the maze is decoded again (dots and pills restored,
\* num_dots_eaten back to 0) at the game init and at the round init after a
\* cleared maze, and in no other step is a dot or pill restored or
\* num_dots_eaten taken back; a round init after a death keeps every maze
\* tile and num_dots_eaten
C17_MazeDecode ==
    [][/\ Restored => DecodeStep
       /\ DecodeStep => Decoded
       /\ (obs'.round_init /\ obs.lost_life) => MazeKept]_vars

\* C17, amended: the same, with the round inits that keep the maze being
\* those that do not follow a cleared maze (after a death, or the first of
\* a game)
C17_MazeDecodeOrKept ==
    [][/\ Restored => DecodeStep
       /\ DecodeStep => Decoded
       /\ (obs'.round_init /\ ~DecodeStep) => MazeKept]_vars

C17_Witness ==
    /\ obs.round_init
    /\ obs.pre.lost_life
    /\ obs.pre.num_dots_eaten > 0
    /\ game.num_dots_eaten = obs.pre.num_dots_eaten
    /\ game.num_lives = obs.pre.num_lives - 1
    /\ game.round = 1

-----------------------------------------------------------------------------
(* Two runs side by side.  In this specification obs holds the             *)
(* observations of the first run (main) and the whole state of a second    *)
(* run (twin), which starts from the same state and gets the same key      *)
(* events in the same ticks; each run has its own build.                   *)

\* the state of the first run
TwinSt == [St EXCEPT !.obs = obs.main]

TwinInit ==
    /\ gamestate = StateInit.gamestate
    /\ timing = StateInit.timing
    /\ intro = StateInit.intro
    /\ game = StateInit.game
    /\ input1 = StateInit.input1
    /\ input2 = StateInit.input2
    /\ gfx = StateInit.gfx
    /\ build \in {"LR", "RL"}
    /\ env = EnvHunt
    /\ \E b \in {"LR", "RL"} :
           obs = [main |-> ObsInit,
                  twin |-> [gamestate |-> StateInit.gamestate,
                            timing |-> StateInit.timing,
                            intro |-> StateInit.intro,
                            game |-> StateInit.game,
                            input1 |-> StateInit.input1,
                            input2 |-> StateInit.input2,
                            gfx |-> StateInit.gfx,
                            build |-> b,
                            obs |-> ObsInit]]

\* the next state is R1 for the first run and R2 for the second
TwinBecomes(R1, R2) == Becomes([R1 EXCEPT !.obs = [main |-> R1.obs, twin |-> R2]])

\* one game tick of both runs
TwinFrame ==
    /\ ~ScriptDue
    /\ timing.tick < env.max_tick
    /\ TwinBecomes(frame([TwinSt EXCEPT !.obs = ObsStart(TwinSt)]),
                   frame([obs.twin EXCEPT !.obs = ObsStart(obs.twin)]))
    /\ UNCHANGED <<build, env>>

\* a key event, seen by both runs
TwinInput ==
    \E key \in Keys, btn_down \in BOOLEAN :
        /\ \/ /\ ScriptDue
              /\ key = env.script[env.pc][2]
              /\ btn_down = env.script[env.pc][3]
              /\ env' = [env EXCEPT !.pc = @ + 1]
           \/ /\ ~ScriptDue
              /\ env.budget > 0
              /\ timing.tick >= env.free_from
              /\ timing.tick <= env.free_to
              /\ key \in env.free_keys
              /\ env' = [env EXCEPT !.budget = @ - 1]
        /\ TwinBecomes(input([TwinSt EXCEPT !.obs = ObsStart(TwinSt)], key, btn_down),
                       input([obs.twin EXCEPT !.obs = ObsStart(obs.twin)], key, btn_down))
        /\ UNCHANGED build

TwinNext == TwinFrame \/ TwinInput

SpecTwin == TwinInit /\ [][TwinNext]_vars

\* the two runs agree on what the replay claim lists
SameActors ==
    /\ game.pacman1 = obs.twin.game.pacman1
    /\ game.pacman2 = obs.twin.game.pacman2
    /\ \A g \in 1 .. NUM_GHOSTS :
           /\ game.ghost[g].actor = obs.twin.game.ghost[g].actor
           /\ game.ghost[g].state = obs.twin.game.ghost[g].state
           /\ game.ghost[g].target_pos = obs.twin.game.ghost[g].target_pos
    /\ game.score = obs.twin.game.score

\* C18: two runs from the same initial state that get the same key events
\* in the same ticks are in the same state after every tick: the same
\* positions and directions of the actors, ghost states and targets, score
\* and state of the pseudo-random generator
C18_Replay ==
    /\ timing.tick = obs.twin.timing.tick
    /\ SameActors
    /\ game.xorshift = obs.twin.game.xorshift

\* the same for two runs of one build, in which the two calls of
\* xorshift32() for a random target are made in the same order
ReplaySameBuild == (build = obs.twin.build) => C18_Replay


-----------------------------------------------------------------------------
(* The claims about the global dot counter.                                *)

\* the value of the global dot counter at which a ghost leaves the house
GlobalLimit ==
    (GHOSTTYPE_PINKY :> 7) @@ (GHOSTTYPE_INKY :> 17) @@ (GHOSTTYPE_CLYDE :> 32)

\* in this tick the global dot counter was active and a dot took it to n
CounterBecomes(n) ==
    /\ obs.dot
    /\ obs.pre.global_dot_counter_active
    /\ game.global_dot_counter = n

\* C19: in global mode a dot adds exactly 1 to global_dot_counter, and
\* nothing else but a round or game init changes it (a pill does not); a
\* ghost of type Pinky, Inky or Clyde that is in HOUSE leaves it in the tick
\* in which the counter becomes 7, 17 or 32; no ghost is in HOUSE in global
\* mode with the counter at or beyond its value
C19_GlobalCounter ==
    /\ (obs.dot /\ obs.pre.global_dot_counter_active)
           => (game.global_dot_counter = obs.pre.global_dot_counter + 1)
    /\ (~(obs.dot /\ obs.pre.global_dot_counter_active)
            /\ ~obs.round_init /\ ~obs.game_init)
           => (game.global_dot_counter = obs.pre.global_dot_counter)
    /\ \A t \in DOMAIN GlobalLimit :
           /\ (CounterBecomes(GlobalLimit[t])
                   /\ (obs.pre.ghost_state[t + 1] = GHOSTSTATE_HOUSE))
                  => (game.ghost[t + 1].state = GHOSTSTATE_LEAVEHOUSE)
           /\ ((gamestate = GAMESTATE_GAME) /\ game.global_dot_counter_active
                   /\ (game.ghost[t + 1].state = GHOSTSTATE_HOUSE))
                  => (game.global_dot_counter < GlobalLimit[t])

C19_Witness ==
    /\ CounterBecomes(17)
    /\ obs.pre.ghost_state[GHOSTTYPE_INKY + 1] = GHOSTSTATE_HOUSE
    /\ game.ghost[GHOSTTYPE_INKY + 1].state = GHOSTSTATE_LEAVEHOUSE
    /\ game.ghost[GHOSTTYPE_CLYDE + 1].state = GHOSTSTATE_HOUSE

-----------------------------------------------------------------------------
(* Clyde released by the force-leave timer in global mode.                 *)

\* Pacman is eaten at tick 972.  In the round that follows Pinky and Inky
\* leave the house on the global dot counter (7 at tick 1383, 17 at tick
\* 1469), a pill is eaten at tick 1479 and no dot for four seconds, so that
\* the force-leave timer releases Clyde at tick 1710 with the counter at
\* 17; the 32nd dot of the round is eaten with Clyde outside.  Pacman is
\* eaten again at tick 2004, and in the third round the counter reaches 32
\* at tick 2707 with Clyde in the house.
GlobalScript ==
    <<<<1, "RIGHT", TRUE>>, <<2, "RIGHT", FALSE>>, <<1312, "LEFT", TRUE>>,
     <<1383, "LEFT", FALSE>>, <<1383, "DOWN", TRUE>>,
     <<1409, "DOWN", FALSE>>, <<1409, "LEFT", TRUE>>,
     <<1435, "LEFT", FALSE>>, <<1435, "UP", TRUE>>, <<1462, "UP", FALSE>>,
     <<1462, "LEFT", TRUE>>, <<1479, "LEFT", FALSE>>,
     <<1479, "RIGHT", TRUE>>, <<1492, "RIGHT", FALSE>>,
     <<1492, "DOWN", TRUE>>, <<1515, "DOWN", FALSE>>,
     <<1515, "RIGHT", TRUE>>, <<1538, "RIGHT", FALSE>>,
     <<1538, "LEFT", TRUE>>, <<1539, "LEFT", FALSE>>,
     <<1539, "RIGHT", TRUE>>, <<1540, "RIGHT", FALSE>>,
     <<1540, "LEFT", TRUE>>, <<1541, "LEFT", FALSE>>,
     <<1541, "RIGHT", TRUE>>, <<1542, "RIGHT", FALSE>>,
     <<1542, "LEFT", TRUE>>, <<1543, "LEFT", FALSE>>,
     <<1543, "RIGHT", TRUE>>, <<1545, "RIGHT", FALSE>>,
     <<1545, "LEFT", TRUE>>, <<1546, "LEFT", FALSE>>,
     <<1546, "RIGHT", TRUE>>, <<1547, "RIGHT", FALSE>>,
     <<1547, "LEFT", TRUE>>, <<1548, "LEFT", FALSE>>,
     <<1548, "RIGHT", TRUE>>, <<1549, "RIGHT", FALSE>>,
     <<1549, "LEFT", TRUE>>, <<1550, "LEFT", FALSE>>,
     <<1550, "RIGHT", TRUE>>, <<1551, "RIGHT", FALSE>>,
     <<1551, "LEFT", TRUE>>, <<1553, "LEFT", FALSE>>,
     <<1553, "RIGHT", TRUE>>, <<1554, "RIGHT", FALSE>>,
     <<1554, "LEFT", TRUE>>, <<1555, "LEFT", FALSE>>,
     <<1555, "RIGHT", TRUE>>, <<1556, "RIGHT", FALSE>>,
     <<1556, "LEFT", TRUE>>, <<1557, "LEFT", FALSE>>,
     <<1557, "RIGHT", TRUE>>, <<1558, "RIGHT", FALSE>>,
     <<1558, "LEFT", TRUE>>, <<1559, "LEFT", FALSE>>,
     <<1559, "RIGHT", TRUE>>, <<1561, "RIGHT", FALSE>>,
     <<1561, "LEFT", TRUE>>, <<1562, "LEFT", FALSE>>,
     <<1562, "RIGHT", TRUE>>, <<1563, "RIGHT", FALSE>>,
     <<1563, "LEFT", TRUE>>, <<1564, "LEFT", FALSE>>,
     <<1564, "RIGHT", TRUE>>, <<1565, "RIGHT", FALSE>>,
     <<1565, "LEFT", TRUE>>, <<1566, "LEFT", FALSE>>,
     <<1566, "RIGHT", TRUE>>, <<1567, "RIGHT", FALSE>>,
     <<1567, "LEFT", TRUE>>, <<1569, "LEFT", FALSE>>,
     <<1569, "RIGHT", TRUE>>, <<1570, "RIGHT", FALSE>>,
     <<1570, "LEFT", TRUE>>, <<1571, "LEFT", FALSE>>,
     <<1571, "RIGHT", TRUE>>, <<1572, "RIGHT", FALSE>>,
     <<1572, "LEFT", TRUE>>, <<1573, "LEFT", FALSE>>,
     <<1573, "RIGHT", TRUE>>, <<1574, "RIGHT", FALSE>>,
     <<1574, "LEFT", TRUE>>, <<1575, "LEFT", FALSE>>,
     <<1575, "RIGHT", TRUE>>, <<1577, "RIGHT", FALSE>>,
     <<1577, "LEFT", TRUE>>, <<1578, "LEFT", FALSE>>,
     <<1578, "RIGHT", TRUE>>, <<1579, "RIGHT", FALSE>>,
     <<1579, "LEFT", TRUE>>, <<1580, "LEFT", FALSE>>,
     <<1580, "RIGHT", TRUE>>, <<1581, "RIGHT", FALSE>>,
     <<1581, "LEFT", TRUE>>, <<1582, "LEFT", FALSE>>,
     <<1582, "RIGHT", TRUE>>, <<1583, "RIGHT", FALSE>>,
     <<1583, "LEFT", TRUE>>, <<1585, "LEFT", FALSE>>,
     <<1585, "RIGHT", TRUE>>, <<1586, "RIGHT", FALSE>>,
     <<1586, "LEFT", TRUE>>, <<1587, "LEFT", FALSE>>,
     <<1587, "RIGHT", TRUE>>, <<1588, "RIGHT", FALSE>>,
     <<1588, "LEFT", TRUE>>, <<1589, "LEFT", FALSE>>,
     <<1589, "RIGHT", TRUE>>, <<1590, "RIGHT", FALSE>>,
     <<1590, "LEFT", TRUE>>, <<1591, "LEFT", FALSE>>,
     <<1591, "RIGHT", TRUE>>, <<1593, "RIGHT", FALSE>>,
     <<1593, "LEFT", TRUE>>, <<1594, "LEFT", FALSE>>,
     <<1594, "RIGHT", TRUE>>, <<1595, "RIGHT", FALSE>>,
     <<1595, "LEFT", TRUE>>, <<1596, "LEFT", FALSE>>,
     <<1596, "RIGHT", TRUE>>, <<1597, "RIGHT", FALSE>>,
     <<1597, "LEFT", TRUE>>, <<1598, "LEFT", FALSE>>,
     <<1598, "RIGHT", TRUE>>, <<1599, "RIGHT", FALSE>>,
     <<1599, "LEFT", TRUE>>, <<1601, "LEFT", FALSE>>,
     <<1601, "RIGHT", TRUE>>, <<1602, "RIGHT", FALSE>>,
     <<1602, "LEFT", TRUE>>, <<1603, "LEFT", FALSE>>,
     <<1603, "RIGHT", TRUE>>, <<1604, "RIGHT", FALSE>>,
     <<1604, "LEFT", TRUE>>, <<1605, "LEFT", FALSE>>,
     <<1605, "RIGHT", TRUE>>, <<1606, "RIGHT", FALSE>>,
     <<1606, "LEFT", TRUE>>, <<1607, "LEFT", FALSE>>,
     <<1607, "RIGHT", TRUE>>, <<1609, "RIGHT", FALSE>>,
     <<1609, "LEFT", TRUE>>, <<1610, "LEFT", FALSE>>,
     <<1610, "RIGHT", TRUE>>, <<1611, "RIGHT", FALSE>>,
     <<1611, "LEFT", TRUE>>, <<1612, "LEFT", FALSE>>,
     <<1612, "RIGHT", TRUE>>, <<1613, "RIGHT", FALSE>>,
     <<1613, "LEFT", TRUE>>, <<1614, "LEFT", FALSE>>,
     <<1614, "RIGHT", TRUE>>, <<1615, "RIGHT", FALSE>>,
     <<1615, "LEFT", TRUE>>, <<1617, "LEFT", FALSE>>,
     <<1617, "RIGHT", TRUE>>, <<1618, "RIGHT", FALSE>>,
     <<1618, "LEFT", TRUE>>, <<1619, "LEFT", FALSE>>,
     <<1619, "RIGHT", TRUE>>, <<1620, "RIGHT", FALSE>>,
     <<1620, "LEFT", TRUE>>, <<1621, "LEFT", FALSE>>,
     <<1621, "RIGHT", TRUE>>, <<1622, "RIGHT", FALSE>>,
     <<1622, "LEFT", TRUE>>, <<1623, "LEFT", FALSE>>,
     <<1623, "RIGHT", TRUE>>, <<1625, "RIGHT", FALSE>>,
     <<1625, "LEFT", TRUE>>, <<1626, "LEFT", FALSE>>,
     <<1626, "RIGHT", TRUE>>, <<1627, "RIGHT", FALSE>>,
     <<1627, "LEFT", TRUE>>, <<1628, "LEFT", FALSE>>,
     <<1628, "RIGHT", TRUE>>, <<1629, "RIGHT", FALSE>>,
     <<1629, "LEFT", TRUE>>, <<1630, "LEFT", FALSE>>,
     <<1630, "RIGHT", TRUE>>, <<1631, "RIGHT", FALSE>>,
     <<1631, "LEFT", TRUE>>, <<1633, "LEFT", FALSE>>,
     <<1633, "RIGHT", TRUE>>, <<1634, "RIGHT", FALSE>>,
     <<1634, "LEFT", TRUE>>, <<1635, "LEFT", FALSE>>,
     <<1635, "RIGHT", TRUE>>, <<1636, "RIGHT", FALSE>>,
     <<1636, "LEFT", TRUE>>, <<1637, "LEFT", FALSE>>,
     <<1637, "RIGHT", TRUE>>, <<1638, "RIGHT", FALSE>>,
     <<1638, "LEFT", TRUE>>, <<1639, "LEFT", FALSE>>,
     <<1639, "RIGHT", TRUE>>, <<1641, "RIGHT", FALSE>>,
     <<1641, "LEFT", TRUE>>, <<1642, "LEFT", FALSE>>,
     <<1642, "RIGHT", TRUE>>, <<1643, "RIGHT", FALSE>>,
     <<1643, "LEFT", TRUE>>, <<1644, "LEFT", FALSE>>,
     <<1644, "RIGHT", TRUE>>, <<1645, "RIGHT", FALSE>>,
     <<1645, "LEFT", TRUE>>, <<1646, "LEFT", FALSE>>,
     <<1646, "RIGHT", TRUE>>, <<1647, "RIGHT", FALSE>>,
     <<1647, "LEFT", TRUE>>, <<1649, "LEFT", FALSE>>,
     <<1649, "RIGHT", TRUE>>, <<1650, "RIGHT", FALSE>>,
     <<1650, "LEFT", TRUE>>, <<1651, "LEFT", FALSE>>,
     <<1651, "RIGHT", TRUE>>, <<1652, "RIGHT", FALSE>>,
     <<1652, "LEFT", TRUE>>, <<1653, "LEFT", FALSE>>,
     <<1653, "RIGHT", TRUE>>, <<1654, "RIGHT", FALSE>>,
     <<1654, "LEFT", TRUE>>, <<1655, "LEFT", FALSE>>,
     <<1655, "RIGHT", TRUE>>, <<1657, "RIGHT", FALSE>>,
     <<1657, "LEFT", TRUE>>, <<1658, "LEFT", FALSE>>,
     <<1658, "RIGHT", TRUE>>, <<1659, "RIGHT", FALSE>>,
     <<1659, "LEFT", TRUE>>, <<1660, "LEFT", FALSE>>,
     <<1660, "RIGHT", TRUE>>, <<1661, "RIGHT", FALSE>>,
     <<1661, "LEFT", TRUE>>, <<1662, "LEFT", FALSE>>,
     <<1662, "RIGHT", TRUE>>, <<1663, "RIGHT", FALSE>>,
     <<1663, "LEFT", TRUE>>, <<1665, "LEFT", FALSE>>,
     <<1665, "RIGHT", TRUE>>, <<1666, "RIGHT", FALSE>>,
     <<1666, "LEFT", TRUE>>, <<1667, "LEFT", FALSE>>,
     <<1667, "RIGHT", TRUE>>, <<1668, "RIGHT", FALSE>>,
     <<1668, "LEFT", TRUE>>, <<1669, "LEFT", FALSE>>,
     <<1669, "RIGHT", TRUE>>, <<1670, "RIGHT", FALSE>>,
     <<1670, "LEFT", TRUE>>, <<1671, "LEFT", FALSE>>,
     <<1671, "RIGHT", TRUE>>, <<1673, "RIGHT", FALSE>>,
     <<1673, "LEFT", TRUE>>, <<1674, "LEFT", FALSE>>,
     <<1674, "RIGHT", TRUE>>, <<1675, "RIGHT", FALSE>>,
     <<1675, "LEFT", TRUE>>, <<1676, "LEFT", FALSE>>,
     <<1676, "RIGHT", TRUE>>, <<1677, "RIGHT", FALSE>>,
     <<1677, "LEFT", TRUE>>, <<1678, "LEFT", FALSE>>,
     <<1678, "RIGHT", TRUE>>, <<1679, "RIGHT", FALSE>>,
     <<1679, "LEFT", TRUE>>, <<1681, "LEFT", FALSE>>,
     <<1681, "RIGHT", TRUE>>, <<1682, "RIGHT", FALSE>>,
     <<1682, "LEFT", TRUE>>, <<1683, "LEFT", FALSE>>,
     <<1683, "RIGHT", TRUE>>, <<1684, "RIGHT", FALSE>>,
     <<1684, "LEFT", TRUE>>, <<1685, "LEFT", FALSE>>,
     <<1685, "RIGHT", TRUE>>, <<1686, "RIGHT", FALSE>>,
     <<1686, "LEFT", TRUE>>, <<1687, "LEFT", FALSE>>,
     <<1687, "RIGHT", TRUE>>, <<1689, "RIGHT", FALSE>>,
     <<1689, "LEFT", TRUE>>, <<1690, "LEFT", FALSE>>,
     <<1690, "RIGHT", TRUE>>, <<1691, "RIGHT", FALSE>>,
     <<1691, "LEFT", TRUE>>, <<1692, "LEFT", FALSE>>,
     <<1692, "RIGHT", TRUE>>, <<1693, "RIGHT", FALSE>>,
     <<1693, "LEFT", TRUE>>, <<1694, "LEFT", FALSE>>,
     <<1694, "RIGHT", TRUE>>, <<1695, "RIGHT", FALSE>>,
     <<1695, "LEFT", TRUE>>, <<1697, "LEFT", FALSE>>,
     <<1697, "RIGHT", TRUE>>, <<1698, "RIGHT", FALSE>>,
     <<1698, "LEFT", TRUE>>, <<1699, "LEFT", FALSE>>,
     <<1699, "RIGHT", TRUE>>, <<1700, "RIGHT", FALSE>>,
     <<1700, "LEFT", TRUE>>, <<1701, "LEFT", FALSE>>,
     <<1701, "RIGHT", TRUE>>, <<1702, "RIGHT", FALSE>>,
     <<1702, "LEFT", TRUE>>, <<1703, "LEFT", FALSE>>,
     <<1703, "RIGHT", TRUE>>, <<1705, "RIGHT", FALSE>>,
     <<1705, "LEFT", TRUE>>, <<1706, "LEFT", FALSE>>,
     <<1706, "RIGHT", TRUE>>, <<1707, "RIGHT", FALSE>>,
     <<1707, "LEFT", TRUE>>, <<1708, "LEFT", FALSE>>,
     <<1708, "RIGHT", TRUE>>, <<1709, "RIGHT", FALSE>>,
     <<1709, "LEFT", TRUE>>, <<1748, "LEFT", FALSE>>, <<1748, "DOWN", TRUE>>,
     <<1774, "DOWN", FALSE>>, <<1774, "RIGHT", TRUE>>,
     <<1911, "RIGHT", FALSE>>, <<1911, "UP", TRUE>>, <<1937, "UP", FALSE>>,
     <<1937, "RIGHT", TRUE>>, <<1963, "RIGHT", FALSE>>, <<1963, "UP", TRUE>>,
     <<1990, "UP", FALSE>>, <<1990, "LEFT", TRUE>>, <<2004, "LEFT", FALSE>>,
     <<2344, "RIGHT", TRUE>>, <<2353, "RIGHT", FALSE>>, <<2353, "UP", TRUE>>,
     <<2379, "UP", FALSE>>, <<2379, "RIGHT", TRUE>>,
     <<2485, "RIGHT", FALSE>>, <<2485, "DOWN", TRUE>>,
     <<2501, "DOWN", FALSE>>, <<2501, "UP", TRUE>>, <<2513, "UP", FALSE>>,
     <<2513, "LEFT", TRUE>>, <<2555, "LEFT", FALSE>>, <<2555, "DOWN", TRUE>>,
     <<2609, "DOWN", FALSE>>, <<2609, "RIGHT", TRUE>>,
     <<2655, "RIGHT", FALSE>>, <<2655, "DOWN", TRUE>>,
     <<2681, "DOWN", FALSE>>, <<2681, "LEFT", TRUE>>,
     <<2707, "LEFT", FALSE>>>>

GlobalTicks == 2730
GlobalFreeAt == 2712

EnvGlobal ==
    [script |-> GlobalScript, pc |-> 1, free_from |-> GlobalFreeAt,
     free_to |-> GlobalFreeAt + FreeSpan, free_keys |-> {"UP", "S"},
     budget |-> FreeBudget, max_tick |-> GlobalTicks]

InitGlobal == ProgInit(EnvGlobal)

SpecGlobal == InitGlobal /\ [][Next]_vars

-----------------------------------------------------------------------------
(* The claims about the end of global mode.                                *)

\* the global dot counter stands at Clyde's value or beyond it
ClydeLimitReached ==
    /\ gamestate = GAMESTATE_GAME
    /\ game.global_dot_counter >= GlobalLimit[GHOSTTYPE_CLYDE]

\* the game tick after which global mode is off although it was on
GlobalModeEnds ==
    /\ gamestate = GAMESTATE_GAME
    /\ obs.pre.global_dot_counter_active
    /\ ~game.global_dot_counter_active
    /\ ~obs.game_init

\* C20: once the global dot counter has reached 32, global mode is off, in
\* every execution, also when Clyde has left the house through the
\* force-leave timer before
C20_GlobalModeOff ==
    ClydeLimitReached => ~game.global_dot_counter_active

\* global mode is switched on in this step
GlobalModeStarts ==
    ~obs.pre.global_dot_counter_active /\ game.global_dot_counter_active

\* C20 for Clyde in the house: when a dot takes the global dot counter to 32
\* with Clyde in HOUSE, global mode is switched off, and it is switched on
\* again only by a round init; with Clyde outside the house it stays on;
\* global mode ends in no other way but the round init after a cleared maze
\* and a new game
C20_GlobalModeOffInHouse ==
    /\ (CounterBecomes(GlobalLimit[GHOSTTYPE_CLYDE])
            /\ (obs.pre.ghost_state[GHOSTTYPE_CLYDE + 1] = GHOSTSTATE_HOUSE))
           => ~game.global_dot_counter_active
    /\ (CounterBecomes(GlobalLimit[GHOSTTYPE_CLYDE])
            /\ (obs.pre.ghost_state[GHOSTTYPE_CLYDE + 1] # GHOSTSTATE_HOUSE))
           => game.global_dot_counter_active
    /\ GlobalModeStarts => obs.round_init
    /\ GlobalModeEnds
           => \/ obs.round_init /\ (obs.pre.num_dots_eaten = NUM_DOTS)
              \/ /\ obs.dot
                 /\ game.global_dot_counter = GlobalLimit[GHOSTTYPE_CLYDE]
                 /\ obs.pre.ghost_state[GHOSTTYPE_CLYDE + 1] = GHOSTSTATE_HOUSE

\* the counter reaches 32 with Clyde in the house, in the round after the
\* one in which it went beyond 32 with Clyde outside
C20_Witness ==
    /\ CounterBecomes(GlobalLimit[GHOSTTYPE_CLYDE])
    /\ obs.pre.ghost_state[GHOSTTYPE_CLYDE + 1] = GHOSTSTATE_HOUSE
    /\ game.ghost[GHOSTTYPE_CLYDE + 1].state = GHOSTSTATE_LEAVEHOUSE
    /\ ~game.global_dot_counter_active
    /\ game.num_lives = NUM_LIVES - 3

-----------------------------------------------------------------------------
(* The claims about the personal dot counters.                             *)

\* the ghosts whose personal dot counter was below its limit before the step
BelowLimit ==
    {g \in 1 .. NUM_GHOSTS :
        obs.pre.game.ghost[g].dot_counter < obs.pre.game.ghost[g].dot_limit}

\* the personal dot counter of ghost g has grown by n in the step
CounterGrown(g, n) ==
    /\ game.ghost[g].dot_counter = obs.pre.game.ghost[g].dot_counter + n
    /\ game.ghost[g].dot_limit = obs.pre.game.ghost[g].dot_limit

\* a dot was eaten in personal mode
PersonalDot == obs.dot /\ ~obs.pre.game.global_dot_counter_active

-----------------------------------------------------------------------------
(* The claims about the state transitions of the ghosts.                   *)

\* the ghosts (by index) eaten in this tick
EatenNow == {obs.eaten[i].g + 1 : i \in DOMAIN obs.eaten}

\* the state in which the state update of this tick has found ghost g: the
\* state before the tick, or EYES when Pacman has eaten the ghost before
StateAtUpdate(g) ==
    IF g \in EatenNow THEN GHOSTSTATE_EYES ELSE obs.pre.game.ghost[g].state

\* the ghost states from which game_update_ghost_state goes to FRIGHTENED
OutsideStates == {GHOSTSTATE_SCATTER, GHOSTSTATE_CHASE, GHOSTSTATE_FRIGHTENED}

\* the ghosts are updated in the tick after the one in which a pill was eaten
UpdateAfterPill ==
    /\ gamestate = GAMESTATE_GAME
    /\ obs.updated
    /\ obs.pre.game.pill_eaten = timing.tick

\* a pill arms the frightened trigger of all four ghosts
PillArmsAll ==
    obs.pill => \A g \in 1 .. NUM_GHOSTS : game.ghost[g].frightened = start(timing.tick)

\* C22 as claimed: a pill arms the frightened trigger of all four ghosts, and
\* every ghost is FRIGHTENED after its next state update, whatever state it
\* was in
C22_PillFrightensAll ==
    /\ PillArmsAll
    /\ UpdateAfterPill
           => \A g \in 1 .. NUM_GHOSTS : game.ghost[g].state = GHOSTSTATE_FRIGHTENED

\* C22 for the ghosts outside the house: a pill arms the frightened trigger
\* of all four ghosts; in the state update of the next tick a ghost found in
\* SCATTER, CHASE or FRIGHTENED is FRIGHTENED afterwards, and a ghost found
\* in HOUSE, LEAVEHOUSE, EYES or ENTERHOUSE is not
C22_PillFrightensOutside ==
    /\ PillArmsAll
    /\ UpdateAfterPill
           => \A g \in 1 .. NUM_GHOSTS :
                  (game.ghost[g].state = GHOSTSTATE_FRIGHTENED)
                      <=> (StateAtUpdate(g) \in OutsideStates)

\* the update after a pill finds Blinky and Pinky outside, Inky in LEAVEHOUSE
\* and Clyde in HOUSE
C22_Witness ==
    /\ UpdateAfterPill
    /\ game.ghost[GHOSTTYPE_BLINKY + 1].state = GHOSTSTATE_FRIGHTENED
    /\ game.ghost[GHOSTTYPE_PINKY + 1].state = GHOSTSTATE_FRIGHTENED
    /\ game.ghost[GHOSTTYPE_INKY + 1].state = GHOSTSTATE_LEAVEHOUSE
    /\ game.ghost[GHOSTTYPE_CLYDE + 1].state = GHOSTSTATE_HOUSE
    /\ \A g \in 1 .. NUM_GHOSTS : game.ghost[g].frightened = obs.pre.game.pill_eaten

\* the state update of this tick has changed the state of ghost g
Transition(g) ==
    obs.updated /\ (obs.after_state[g].state # obs.at_update[g].state)

\* the state update of this tick has taken ghost g from a state of from
LeftFrom(g, from) == Transition(g) /\ (obs.at_update[g].state \in from)

\* ghost g looks and heads to the left when its state update is done
HeadsLeft(g) ==
    /\ obs.after_state[g].actor.dir = DIR_LEFT
    /\ obs.after_state[g].next_dir = DIR_LEFT

\* C23 as claimed: when the state of a ghost changes away from HOUSE or from
\* LEAVEHOUSE, its direction and next direction are both DIR_LEFT
C23_LeftFromHouse ==
    \A g \in 1 .. NUM_GHOSTS :
        LeftFrom(g, {GHOSTSTATE_HOUSE, GHOSTSTATE_LEAVEHOUSE}) => HeadsLeft(g)

\* C23 for LEAVEHOUSE: when the state of a ghost changes away from
\* LEAVEHOUSE, its direction and next direction are both DIR_LEFT after the
\* state update and still at the end of the tick; a change away from HOUSE
\* leaves both as they were
C23_LeftFromLeaveHouse ==
    \A g \in 1 .. NUM_GHOSTS :
        /\ LeftFrom(g, {GHOSTSTATE_LEAVEHOUSE})
               => /\ HeadsLeft(g)
                  /\ game.ghost[g].actor.dir = DIR_LEFT
                  /\ game.ghost[g].next_dir = DIR_LEFT
        /\ LeftFrom(g, {GHOSTSTATE_HOUSE})
               => /\ obs.after_state[g].actor.dir = obs.at_update[g].actor.dir
                  /\ obs.after_state[g].next_dir = obs.at_update[g].next_dir

\* Inky, who came out of the house looking up, goes from LEAVEHOUSE to SCATTER
C23_Witness ==
    /\ LeftFrom(GHOSTTYPE_INKY + 1, {GHOSTSTATE_LEAVEHOUSE})
    /\ obs.at_update[GHOSTTYPE_INKY + 1].actor.dir = DIR_UP
    /\ game.ghost[GHOSTTYPE_INKY + 1].state = GHOSTSTATE_SCATTER
    /\ HeadsLeft(GHOSTTYPE_INKY + 1)

\* C24 as claimed: the frightened trigger of a ghost is disabled when its
\* state becomes ENTERHOUSE and for as long as the state is ENTERHOUSE
C24_DisabledInEnterHouse ==
    \A g \in 1 .. NUM_GHOSTS :
        /\ (Transition(g) /\ (obs.after_state[g].state = GHOSTSTATE_ENTERHOUSE))
               => (obs.after_state[g].frightened = disable)
        /\ (game.ghost[g].state = GHOSTSTATE_ENTERHOUSE)
               => (game.ghost[g].frightened = disable)

\* C24 for the end of ENTERHOUSE: the frightened trigger of a ghost is
\* disabled in the tick in which its state changes away from ENTERHOUSE; the
\* change from EYES to ENTERHOUSE leaves the trigger as it was
C24_DisabledAfterEnterHouse ==
    \A g \in 1 .. NUM_GHOSTS :
        /\ LeftFrom(g, {GHOSTSTATE_ENTERHOUSE})
               => /\ obs.after_state[g].state = GHOSTSTATE_LEAVEHOUSE
                  /\ obs.after_state[g].frightened = disable
                  /\ game.ghost[g].frightened = disable
        /\ (Transition(g) /\ (obs.after_state[g].state = GHOSTSTATE_ENTERHOUSE))
               => /\ obs.at_update[g].state = GHOSTSTATE_EYES
                  /\ obs.after_state[g].frightened = obs.at_update[g].frightened

\* a ghost goes from ENTERHOUSE to LEAVEHOUSE with its trigger still armed
C24_Witness ==
    \E g \in 1 .. NUM_GHOSTS :
        /\ LeftFrom(g, {GHOSTSTATE_ENTERHOUSE})
        /\ obs.at_update[g].frightened # disable
        /\ game.ghost[g].state = GHOSTSTATE_LEAVEHOUSE
        /\ game.ghost[g].frightened = disable

-----------------------------------------------------------------------------
(* An eaten ghost and the bonus fruit.                                     *)

\* Player one plays as in FruitScript: a pill at tick 1084, Inky eaten at
\* tick 1122.  It then waits next to the fruit until Inky has gone through
\* the house and is in CHASE again (tick 1427) and eats the fruit at tick
\* 1443.
RefrightScript ==
    <<<<1, "OTHER", TRUE>>, <<2, "OTHER", FALSE>>, <<282, "D", TRUE>>,
     <<351, "D", FALSE>>, <<351, "S", TRUE>>, <<377, "S", FALSE>>,
     <<377, "D", TRUE>>, <<423, "D", FALSE>>, <<423, "S", TRUE>>,
     <<449, "S", FALSE>>, <<449, "A", TRUE>>, <<695, "A", FALSE>>,
     <<695, "W", TRUE>>, <<721, "W", FALSE>>, <<721, "D", TRUE>>,
     <<767, "D", FALSE>>, <<767, "W", TRUE>>, <<793, "W", FALSE>>,
     <<793, "D", TRUE>>, <<849, "D", FALSE>>, <<849, "W", TRUE>>,
     <<875, "W", FALSE>>, <<875, "A", TRUE>>, <<879, "A", FALSE>>,
     <<879, "S", TRUE>>, <<902, "S", FALSE>>, <<902, "A", TRUE>>,
     <<926, "A", FALSE>>, <<926, "S", TRUE>>, <<951, "S", FALSE>>,
     <<951, "W", TRUE>>, <<971, "W", FALSE>>, <<971, "A", TRUE>>,
     <<995, "A", FALSE>>, <<995, "S", TRUE>>, <<1018, "S", FALSE>>,
     <<1018, "A", TRUE>>, <<1042, "A", FALSE>>, <<1042, "W", TRUE>>,
     <<1067, "W", FALSE>>, <<1067, "A", TRUE>>, <<1085, "A", FALSE>>,
     <<1085, "D", TRUE>>, <<1098, "D", FALSE>>, <<1098, "S", TRUE>>,
     <<1121, "S", FALSE>>, <<1121, "D", TRUE>>, <<1122, "D", FALSE>>,
     <<1183, "D", TRUE>>, <<1204, "D", FALSE>>, <<1204, "W", TRUE>>,
     <<1257, "W", FALSE>>, <<1257, "D", TRUE>>, <<1283, "D", FALSE>>,
     <<1283, "W", TRUE>>, <<1308, "W", FALSE>>, <<1308, "D", TRUE>>,
     <<1335, "D", FALSE>>, <<1335, "A", TRUE>>, <<1346, "A", FALSE>>,
     <<1346, "D", TRUE>>, <<1347, "D", FALSE>>, <<1347, "A", TRUE>>,
     <<1348, "A", FALSE>>, <<1348, "D", TRUE>>, <<1349, "D", FALSE>>,
     <<1349, "A", TRUE>>, <<1350, "A", FALSE>>, <<1350, "D", TRUE>>,
     <<1352, "D", FALSE>>, <<1352, "A", TRUE>>, <<1357, "A", FALSE>>,
     <<1357, "D", TRUE>>, <<1358, "D", FALSE>>, <<1358, "A", TRUE>>,
     <<1359, "A", FALSE>>, <<1359, "D", TRUE>>, <<1360, "D", FALSE>>,
     <<1360, "A", TRUE>>, <<1361, "A", FALSE>>, <<1361, "D", TRUE>>,
     <<1362, "D", FALSE>>, <<1362, "A", TRUE>>, <<1363, "A", FALSE>>,
     <<1363, "D", TRUE>>, <<1365, "D", FALSE>>, <<1365, "A", TRUE>>,
     <<1366, "A", FALSE>>, <<1366, "D", TRUE>>, <<1367, "D", FALSE>>,
     <<1367, "A", TRUE>>, <<1369, "A", FALSE>>, <<1369, "D", TRUE>>,
     <<1370, "D", FALSE>>, <<1370, "A", TRUE>>, <<1372, "A", FALSE>>,
     <<1372, "D", TRUE>>, <<1373, "D", FALSE>>, <<1373, "A", TRUE>>,
     <<1374, "A", FALSE>>, <<1374, "D", TRUE>>, <<1376, "D", FALSE>>,
     <<1376, "A", TRUE>>, <<1377, "A", FALSE>>, <<1377, "D", TRUE>>,
     <<1379, "D", FALSE>>, <<1379, "A", TRUE>>, <<1380, "A", FALSE>>,
     <<1380, "D", TRUE>>, <<1382, "D", FALSE>>, <<1382, "A", TRUE>>,
     <<1387, "A", FALSE>>, <<1387, "D", TRUE>>, <<1388, "D", FALSE>>,
     <<1388, "A", TRUE>>, <<1389, "A", FALSE>>, <<1389, "D", TRUE>>,
     <<1392, "D", FALSE>>, <<1392, "A", TRUE>>, <<1393, "A", FALSE>>,
     <<1393, "D", TRUE>>, <<1394, "D", FALSE>>, <<1394, "A", TRUE>>,
     <<1395, "A", FALSE>>, <<1395, "D", TRUE>>, <<1397, "D", FALSE>>,
     <<1397, "A", TRUE>>, <<1398, "A", FALSE>>, <<1398, "D", TRUE>>,
     <<1401, "D", FALSE>>, <<1401, "A", TRUE>>, <<1403, "A", FALSE>>,
     <<1403, "D", TRUE>>, <<1405, "D", FALSE>>, <<1405, "A", TRUE>>,
     <<1407, "A", FALSE>>, <<1407, "D", TRUE>>, <<1409, "D", FALSE>>,
     <<1409, "A", TRUE>>, <<1411, "A", FALSE>>, <<1411, "D", TRUE>>,
     <<1412, "D", FALSE>>, <<1412, "A", TRUE>>, <<1413, "A", FALSE>>,
     <<1413, "D", TRUE>>, <<1414, "D", FALSE>>, <<1414, "A", TRUE>>,
     <<1415, "A", FALSE>>, <<1415, "D", TRUE>>, <<1416, "D", FALSE>>,
     <<1416, "A", TRUE>>, <<1417, "A", FALSE>>, <<1417, "D", TRUE>>,
     <<1443, "D", FALSE>>>>

RefrightTicks == 1470
RefrightFreeAt == 1455

EnvRefright ==
    [script |-> RefrightScript, pc |-> 1, free_from |-> RefrightFreeAt,
     free_to |-> RefrightFreeAt + FreeSpan, free_keys |-> {"W", "LEFT"},
     budget |-> FreeBudget, max_tick |-> RefrightTicks]

InitRefright == ProgInit(EnvRefright)

SpecRefright == InitRefright /\ [][Next]_vars

\* C25: a ghost that was eaten is not in state FRIGHTENED again before the
\* next pill is eaten
C25_NoRefright ==
    \A i \in obs.immune : game.ghost[i + 1].state # GHOSTSTATE_FRIGHTENED

\* C26: when game_update_ghost_state takes a ghost from SCATTER or CHASE to
\* another state, next_dir becomes the reverse of the ghost's direction (and
\* the direction stays); when it takes a ghost from FRIGHTENED to another
\* state, dir and next_dir are as before
C26_Reversal ==
    \A g \in 1 .. NUM_GHOSTS :
        /\ LeftFrom(g, {GHOSTSTATE_SCATTER, GHOSTSTATE_CHASE})
               => /\ obs.after_state[g].next_dir = reverse_dir(obs.at_update[g].actor.dir)
                  /\ obs.after_state[g].actor.dir = obs.at_update[g].actor.dir
        /\ LeftFrom(g, {GHOSTSTATE_FRIGHTENED})
               => /\ obs.after_state[g].next_dir = obs.at_update[g].next_dir
                  /\ obs.after_state[g].actor.dir = obs.at_update[g].actor.dir

\* the ghost had gone on without the switch
Reversed(g) ==
    /\ obs.at_update[g].next_dir # reverse_dir(obs.at_update[g].actor.dir)
    /\ obs.after_state[g].next_dir = reverse_dir(obs.at_update[g].actor.dir)

\* a pill turns round a ghost in CHASE
C26_Witness ==
    \E g \in 1 .. NUM_GHOSTS :
        /\ LeftFrom(g, {GHOSTSTATE_CHASE})
        /\ obs.after_state[g].state = GHOSTSTATE_FRIGHTENED
        /\ Reversed(g)

-----------------------------------------------------------------------------
(* The claims about the interactions of the player.                        *)

\* the actor that is driven by the input and moved
Player == IF game.player2 THEN game.pacman1 ELSE game.pacman2

PlayerBefore == IF game.player2 THEN obs.pre.game.pacman1 ELSE obs.pre.game.pacman2

\* the tile of the player after the movement step of this tick
PlayerTile == pixel_to_tile_pos(Player.actor.pos)

\* an actor update has run in this tick: the game was not frozen
UnfrozenTick == (gamestate = GAMESTATE_GAME) /\ obs.updated

\* game_pacman_should_move() as the actor update of this tick has seen it
ShouldMove == game_pacman_should_move([game |-> obs.pre.game, timing |-> timing])

\* a ghost in CHASE or SCATTER stands on the player's tile when the player
\* has moved and the ghosts have not yet
GhostOnTile ==
    \E g \in 1 .. NUM_GHOSTS :
        /\ obs.pre.game.ghost[g].state \in {GHOSTSTATE_CHASE, GHOSTSTATE_SCATTER}
        /\ equal_i2(pixel_to_tile_pos(obs.pre.game.ghost[g].actor.pos), PlayerTile)

\* C27 as claimed: in every unfrozen tick the interactions are evaluated
\* exactly once, at the player's tile after the movement step, and the death
\* sequence starts whenever a ghost in CHASE or SCATTER is on that tile
C27_InteractEveryTick ==
    UnfrozenTick
        => /\ obs.interact = <<PlayerTile>>
           /\ GhostOnTile => obs.died

\* C27 for the ticks in which the player is due to move: there the
\* interactions are evaluated exactly once, at the player's tile after the
\* movement step, and the death sequence starts exactly if a ghost in CHASE
\* or SCATTER is on that tile; in the other unfrozen ticks the player stands
\* still and nothing is evaluated
C27_InteractWhenMoving ==
    /\ (UnfrozenTick /\ ShouldMove)
           => /\ obs.interact = <<PlayerTile>>
              /\ GhostOnTile <=> obs.died
    /\ (UnfrozenTick /\ ~ShouldMove)
           => /\ obs.interact = <<>>
              /\ Player = PlayerBefore
              /\ ~obs.died /\ ~obs.dot /\ ~obs.pill
              /\ obs.fruit = "none" /\ obs.eaten = <<>>
    /\ ~UnfrozenTick => (obs.interact = <<>>)

\* the player runs into a ghost in a tick in which it is due to move
C27_Witness ==
    /\ UnfrozenTick /\ ShouldMove
    /\ Player # PlayerBefore
    /\ GhostOnTile
    /\ obs.died
    /\ FREEZETYPE_DEAD \in game.freeze

-----------------------------------------------------------------------------
(* The freeze after a ghost was eaten (src 2350-2360, 2526-2531).          *)

\* the scheduling: frame() runs its tick loop for every displayed frame, and
\* a key event of the script arrives at its tick.  Scheduled is Frame and the
\* scripted case of Input as far as they change the clock and the script
\* position; a step of Next satisfies it exactly if it is one of the two
FrameDue == ~ScriptDue /\ timing.tick < env.max_tick

Scheduled ==
    \/ /\ FrameDue
       /\ timing' = [tick |-> UAdd(timing.tick, 1)]
       /\ env' = env
    \/ /\ ScriptDue
       /\ env' = [env EXCEPT !.pc = @ + 1]
       /\ timing' = timing

\* the hunt with the ticks and the scripted key events scheduled; the free
\* key events stay optional
FairHunt == SpecHunt /\ WF_<<timing, env>>(Scheduled)

EatFrozen == FREEZETYPE_EAT_GHOST \in game.freeze

\* the last step was a tick (a key event leaves the tick as it is)
FrameDone == obs.pre.tick # timing.tick

\* ticks since the tick T in which a ghost was eaten for the last time
\* before the step (start() arms ghost_eaten with T + 1), or -1
SinceEaten(g) ==
    IF g.ghost_eaten \in {0, DISABLED_TICKS} THEN -1 ELSE timing.tick + 1 - g.ghost_eaten

\* the flag is set in the ticks T .. T + 60 and in no other, it stops the
\* actor update in T + 1 .. T + 60 and not in T + 61
EatGhostWindow ==
    /\ EatFrozen <=> (SinceEaten(game) \in 0 .. GHOST_EATEN_FREEZE_TICKS)
    /\ (EatFrozen /\ SinceEaten(game) >= 1) => ~obs.updated
    /\ (FrameDone /\ SinceEaten(obs.pre.game) = GHOST_EATEN_FREEZE_TICKS + 1
          /\ obs.pre.game.freeze = {FREEZETYPE_EAT_GHOST})
           => obs.updated

\* C28: after a ghost is eaten at tick T, FREEZETYPE_EAT_GHOST stays set,
\* with no actor update, for exactly the ticks T + 1 .. T + 60 and is cleared
\* at tick T + 61 before the actor update of that tick; whenever the flag is
\* set it is eventually cleared
C28_EatGhostFreeze == [](EatGhostWindow) /\ (EatFrozen ~> ~EatFrozen)

\* C28 as long as the game loop runs: the same in the game state; when the
\* intro state begins with the flag set, the flag stays as it is
C28_EatGhostFreezeInGame ==
    /\ []((gamestate = GAMESTATE_GAME) => EatGhostWindow)
    /\ [][(gamestate' = GAMESTATE_INTRO) => (EatFrozen' <=> EatFrozen)]_vars
    /\ (EatFrozen ~> (~EatFrozen \/ gamestate = GAMESTATE_INTRO))

C28_Witness ==
    /\ gamestate = GAMESTATE_GAME
    /\ FrameDone
    /\ SinceEaten(obs.pre.game) = GHOST_EATEN_FREEZE_TICKS + 1
    /\ obs.pre.game.freeze = {FREEZETYPE_EAT_GHOST}
    /\ game.freeze = {}
    /\ obs.updated

-----------------------------------------------------------------------------
(* The bonus fruit (src 2324-2344, 2416-2427).                             *)

FruitEaten == obs.fruit # "none"

\* the points of the tick in which the fruit is eaten: the bonus score of the
\* level and what a dot, a pill and the ghosts eaten in the same tick add
FruitTickPoints ==
    levelspec(obs.pre.round).bonus_score
      + (IF obs.dot THEN 1 ELSE 0) + (IF obs.pill THEN 5 ELSE 0) + PointsOf(obs.eaten)

\* C29: eating the active bonus fruit adds the bonus score of the level, sets
\* active_fruit to FRUIT_NONE and arms fruit_eaten, and leaves the pill_eaten
\* trigger and the frightened trigger of every ghost as they were (a ghost
\* that leaves ENTERHOUSE in the same tick disables its own), whichever of
\* the two player actors eats the fruit
C29_FruitEffect ==
    FruitEaten =>
        /\ game.score = UAdd(obs.pre.score, FruitTickPoints)
        /\ game.active_fruit = FRUIT_NONE
        /\ game.fruit_eaten = start(timing.tick)
        /\ obs.pill \/ (game.pill_eaten = obs.pre.game.pill_eaten)
        /\ obs.pill \/ \A g \in 1 .. NUM_GHOSTS :
               game.ghost[g].frightened \in {obs.pre.game.ghost[g].frightened, disable}

-----------------------------------------------------------------------------
(* Blinky's chase target (src 2059-2077).                                  *)

\* Blinky's target was computed in CHASE state in this tick
BlinkyChases ==
    /\ obs.updated
    /\ obs.after_state[GHOSTTYPE_BLINKY + 1].state = GHOSTSTATE_CHASE

\* C30: in CHASE state the target tile computed for Blinky is the current
\* tile of the player actor, the one that is driven by the input and moved
\* in that tick: pacman1 when the player2 flag is set, pacman2 otherwise
C30_BlinkyTarget ==
    BlinkyChases => equal_i2(game.ghost[GHOSTTYPE_BLINKY + 1].target_pos, PlayerTile)

-----------------------------------------------------------------------------
(* Clyde's chase target (src 2096-2108).                                   *)

\* Clyde's target was computed in CHASE state in this tick
ClydeChases ==
    /\ obs.updated
    /\ obs.after_state[GHOSTTYPE_CLYDE + 1].state = GHOSTSTATE_CHASE

\* Clyde's tile when its target is computed: the ghost has not moved yet
ClydeTile == pixel_to_tile_pos(obs.at_update[GHOSTTYPE_CLYDE + 1].actor.pos)

\* C31: in CHASE state Clyde targets the tile of the player actor (the one
\* driven by the input) when the squared tile distance between Clyde and
\* that actor is greater than 64, and its scatter corner (0,34) otherwise
C31_ClydeTarget ==
    ClydeChases =>
        equal_i2(game.ghost[GHOSTTYPE_CLYDE + 1].target_pos,
                 IF squared_distance_i2(ClydeTile, PlayerTile) > 64
                 THEN PlayerTile
                 ELSE i2(0, 34))

-----------------------------------------------------------------------------
(* The choice of the next direction (src 2189-2223).                       *)

\* the fixed order in which the directions are tried
DirOrder == <<DIR_UP, DIR_LEFT, DIR_DOWN, DIR_RIGHT>>

\* the ghost states in which the ghost heads towards its target
TargetStates ==
    {GHOSTSTATE_SCATTER, GHOSTSTATE_CHASE, GHOSTSTATE_FRIGHTENED, GHOSTSTATE_EYES}

Centred(gh) == equal_i2(dist_to_tile_mid(gh.actor.pos), i2(0, 0))

\* the tile that direction DirOrder[i] leads to from the tile from
ResultTile(from, i) == clamped_tile_pos(add_i2(from, dir_to_vec(DirOrder[i])))

\* direction DirOrder[i] qualifies for a ghost in state st that decides for
\* the tile from while going in direction cur
Qualifies(st, cur, from, i) ==
    /\ reverse_dir(DirOrder[i]) # cur
    /\ ~is_blocking_tile(St, ResultTile(from, i))
    /\ ~((DirOrder[i] = DIR_UP) /\ is_redzone(from) /\ (st # GHOSTSTATE_EYES))

\* the first direction of DirOrder that qualifies and is nearest to the
\* target, or the direction old if none qualifies
Nearest(gh, cur, from, old) ==
    LET Q == {i \in 1 .. NUM_DIRS : Qualifies(gh.state, cur, from, i)}
        D(i) == squared_distance_i2(ResultTile(from, i), gh.target_pos)
    IN  IF Q = {} THEN old
        ELSE DirOrder[CHOOSE i \in Q : \A j \in Q : (D(i) < D(j)) \/ ((D(i) = D(j)) /\ (i <= j))]

\* the calls of game_update_ghost_dir of this tick for ghosts that head
\* towards their target
TargetCalls ==
    {k \in 1 .. Len(obs.dir_calls) : obs.dir_calls[k].before.state \in TargetStates}

OffCentreKept ==
    \A k \in TargetCalls :
        LET c == obs.dir_calls[k]
        IN  ~Centred(c.before) => (c.after = c.before)

\* C32: a ghost in SCATTER, CHASE, FRIGHTENED or EYES exactly on a tile
\* centre gets as next_dir the first direction in the order up, left, down,
\* right that minimises the squared distance from the resulting tile to
\* target_pos among the directions that are not the reverse of the current
\* direction, do not lead to a blocking tile and are not 'up' inside a red
\* zone unless the ghost is in EYES; next_dir is unchanged if no direction
\* qualifies, and off-centre the direction is never recomputed
C32_NextDirFromOwnTile ==
    /\ OffCentreKept
    /\ \A k \in TargetCalls :
           LET c == obs.dir_calls[k]
           IN  Centred(c.before) =>
                   (c.after.next_dir =
                        Nearest(c.before, c.before.actor.dir,
                                pixel_to_tile_pos(c.before.actor.pos), c.before.next_dir))

\* C32 with the look-ahead: at the centre the ghost takes its old next_dir
\* as direction, and the new next_dir is chosen in the same way for the tile
\* ahead, one step in that direction from the ghost's tile
C32_NextDirFromTileAhead ==
    /\ OffCentreKept
    /\ \A k \in TargetCalls :
           LET c == obs.dir_calls[k]
           IN  Centred(c.before) =>
                   /\ c.after.actor.dir = c.before.next_dir
                   /\ c.after.next_dir =
                          Nearest(c.before, c.before.next_dir,
                                  add_i2(pixel_to_tile_pos(c.before.actor.pos),
                                         dir_to_vec(c.before.next_dir)),
                                  c.before.next_dir)
                   /\ c.after = [c.before EXCEPT !.actor.dir = c.after.actor.dir,
                                                 !.next_dir = c.after.next_dir]

\* a ghost at a centre in front of a junction: two directions qualify, the
\* nearer one is not the first in the order, and next_dir changes
C32_Witness ==
    \E k \in TargetCalls :
        LET c == obs.dir_calls[k]
            from == add_i2(pixel_to_tile_pos(c.before.actor.pos), dir_to_vec(c.before.next_dir))
            Q == {i \in 1 .. NUM_DIRS : Qualifies(c.before.state, c.before.next_dir, from, i)}
        IN  /\ Centred(c.before)
            /\ Cardinality(Q) >= 2
            /\ c.after.next_dir # c.before.next_dir
            /\ c.after.next_dir # DirOrder[CHOOSE i \in Q : \A j \in Q : i <= j]

-----------------------------------------------------------------------------
(* The stalls of the player (src 1896-1908, 2289-2302, 2381-2394).         *)

\* the last step was a tick of the game loop that did not place the actors
\* anew (a round init puts them back on their start positions)
GameFrame == FrameDone /\ (gamestate = GAMESTATE_GAME) /\ ~obs.round_init

\* a dot was eaten in the tick before, a pill in one of the three ticks
\* before, or the tick is a multiple of 8
Stalled ==
    \/ obs.pre.last_dot = timing.tick - 1
    \/ (obs.pre.last_pill >= 0) /\ (timing.tick - obs.pre.last_pill \in 1 .. 3)
    \/ timing.tick % 8 = 0

\* the player has made one step of move() in its direction if can_move
\* allows it, and none otherwise
OneStep ==
    Player.actor.pos =
        IF can_move(St, PlayerBefore.actor.pos, Player.actor.dir, TRUE)
        THEN move(PlayerBefore.actor.pos, Player.actor.dir, TRUE)
        ELSE PlayerBefore.actor.pos

\* C33: the position of the player actor does not change in the tick after
\* a dot was eaten, in the three ticks after a pill was eaten and in the
\* ticks that are multiples of 8; in every other unfrozen tick the player
\* advances exactly one step when can_move allows it
C33_PlayerStalls ==
    GameFrame =>
        /\ Stalled => (Player.actor.pos = PlayerBefore.actor.pos)
        /\ (~Stalled /\ obs.updated) => OneStep

-----------------------------------------------------------------------------
(* The force-leave timer with several ghosts in the house (src 1975-1985). *)

\* the ghosts (types) in HOUSE when the ghost loop starts
HouseGhosts == {g \in GhostTypes : obs.at_update[g + 1].state = GHOSTSTATE_HOUSE}

\* the ghost loop of this tick sees the pulse of the force-leave timer: no
\* dot of this tick has armed the timer anew
ForceLeavePulse ==
    /\ obs.updated
    /\ ~obs.dot
    /\ after_once(obs.pre.game.force_leave_house, 4*60, timing.tick)

\* the dot counters release ghost g from the house
DotRelease(g) ==
    LET ghost == obs.at_update[g + 1]
    IN  IF obs.pre.game.global_dot_counter_active
        THEN \/ (g = GHOSTTYPE_PINKY) /\ (game.global_dot_counter = 7)
             \/ (g = GHOSTTYPE_INKY) /\ (game.global_dot_counter = 17)
             \/ (g = GHOSTTYPE_CLYDE) /\ (game.global_dot_counter = 32)
        ELSE ghost.dot_counter = ghost.dot_limit

\* C34: when the ghost loop sees the force-leave pulse with several ghosts
\* in HOUSE, the timer moves exactly one of them to LEAVEHOUSE, the one with
\* the lowest type index, the timer is armed again in the same step, and no
\* other ghost is released by the timer in that tick
C34_ForceLeaveOne ==
    (ForceLeavePulse /\ Cardinality(HouseGhosts) >= 2) =>
        LET first == CHOOSE g \in HouseGhosts : \A h \in HouseGhosts : g <= h
        IN  /\ obs.after_state[first + 1].state = GHOSTSTATE_LEAVEHOUSE
            /\ game.force_leave_house = start(timing.tick)
            /\ \A g \in HouseGhosts \ {first} :
                   (obs.after_state[g + 1].state # GHOSTSTATE_HOUSE) => DotRelease(g)

C34_Witness ==
    /\ ForceLeavePulse
    /\ Cardinality(HouseGhosts) >= 2
    /\ \E g \in HouseGhosts : obs.after_state[g + 1].state = GHOSTSTATE_LEAVEHOUSE
    /\ \E g \in HouseGhosts : obs.after_state[g + 1].state = GHOSTSTATE_HOUSE

-----------------------------------------------------------------------------
(* Game over (src 2556-2562, 772-788).                                     *)

\* the game over with the ticks and the scripted key events scheduled
FairOver == SpecOver /\ WF_<<timing, env>>(Scheduled)

\* game_over has fired in the game that was started last
GameOverFired == obs.over_at >= 0

\* the player has died with no lives left
LastLifeLost == obs.died /\ (game.num_lives = 0)

\* from the tick G in which game_over fires the input is disabled, and the
\* state is GAME up to tick G + 209 and INTRO from tick G + 210 on
GameOverWindow ==
    GameOverFired =>
        /\ (gamestate = GAMESTATE_GAME) <=> (timing.tick < obs.over_at + GAMEOVER_TICKS + FADE_TICKS)
        /\ (gamestate = GAMESTATE_GAME) =>
               /\ ~input1.enabled
               /\ ~input2.enabled
               /\ input1 = InputZero
               /\ intro.started = obs.over_at + GAMEOVER_TICKS + FADE_TICKS

\* C35: after the game_over trigger fires at tick G, input is disabled and
\* the top-level state becomes GAMESTATE_INTRO exactly GAMEOVER_TICKS +
\* FADE_TICKS (210) ticks later; every game in which the player dies with no
\* lives left eventually returns to the intro state
C35_GameOver == [](GameOverWindow) /\ (LastLifeLost ~> (gamestate = GAMESTATE_INTRO))

C35_Witness ==
    /\ GameOverFired
    /\ gamestate = GAMESTATE_INTRO
    /\ timing.tick = obs.over_at + GAMEOVER_TICKS + FADE_TICKS

-----------------------------------------------------------------------------
(* The accesses to the tile grid.                                          *)

AllActors ==
    {game.pacman1.actor, game.pacman2.actor} \cup {game.ghost[g + 1].actor : g \in 0 .. NUM_GHOSTS - 1}

AllDirs == {DIR_RIGHT, DIR_DOWN, DIR_LEFT, DIR_UP}

\* the tiles at which is_dot, is_pill and vid_tile were called in this tick:
\* the tile of the player that has moved
PlayerAccessOK ==
    \A i \in 1 .. Len(obs.interact) : valid_tile_pos(obs.interact[i])

\* the tile of every actor is a tile of the grid
ActorTilesOK ==
    \A a \in AllActors : valid_tile_pos(pixel_to_tile_pos(a.pos))

\* the tile read by can_move for an actor at pixel position pos
CanMoveTile(pos, d) == clamped_tile_pos(add_i2(pixel_to_tile_pos(pos), dir_to_vec(d)))

\* the tile read by game_update_ghost_dir when it tries direction d
TryTile(gh, d) ==
    clamped_tile_pos(add_i2(add_i2(pixel_to_tile_pos(gh.actor.pos), dir_to_vec(gh.actor.dir)),
                            dir_to_vec(d)))

\* the tiles read through clamped_tile_pos: by can_move for every actor in
\* every direction, and by every call of game_update_ghost_dir of this tick
ClampedAccessOK ==
    /\ \A a \in AllActors : \A d \in AllDirs : valid_tile_pos(CanMoveTile(a.pos, d))
    /\ \A i \in 1 .. Len(obs.dir_calls) : \A d \in AllDirs :
           /\ valid_tile_pos(TryTile(obs.dir_calls[i].before, d))
           /\ valid_tile_pos(CanMoveTile(obs.dir_calls[i].after.actor.pos, d))

\* C36: every tile-grid access is in range (0 <= x < 28, 0 <= y < 36), the
\* assertions of tile_code_at and vid_tile never fail: the tiles read or
\* written are the tile of an actor position or have been clamped first
C36_GridAccess == PlayerAccessOK /\ ActorTilesOK /\ ClampedAccessOK

\* a player in the rightmost column of the tunnel has its tile tested, and a
\* ghost has looked ahead in the same tick
C36_Witness ==
    /\ gamestate = GAMESTATE_GAME
    /\ Len(obs.interact) > 0
    /\ \E i \in 1 .. Len(obs.interact) : obs.interact[i].x = DISPLAY_TILES_X - 1
    /\ Len(obs.dir_calls) > 0

-----------------------------------------------------------------------------
(* The lives.                                                              *)

DeathTicks == PACMAN_EATEN_TICKS + PACMAN_DEATH_TICKS

\* the assertion of game_round_init
LivesAssertion == (game.num_lives >= 0) /\ (game.num_lives <= NUM_LIVES)

\* a round init that takes a life finds num_lives > 0
RoundInitTakesLife ==
    (obs.round_init /\ game.num_lives # obs.pre.num_lives)
        => /\ obs.pre.num_lives > 0
           /\ game.num_lives = obs.pre.num_lives - 1

\* a death with lives left arms the round init, a death with no lives left
\* arms game_over, both DeathTicks ahead
DeathArms ==
    obs.died =>
        /\ obs.death.tick = timing.tick
        /\ obs.death.num_lives = game.num_lives
        /\ IF game.num_lives > 0
           THEN /\ game.ready_started = start_after(DeathTicks, timing.tick)
                /\ game.game_over = disabled_timer
           ELSE game.game_over = start_after(DeathTicks, timing.tick)

\* game_over fires DeathTicks after the death with num_lives = 0 and in no other tick
GameOverOnLastLife ==
    /\ GameOverFired => (game.num_lives = 0)
    /\ (obs.over_at = timing.tick)
           => (obs.death = [tick |-> obs.over_at - DeathTicks, num_lives |-> 0])

\* C37: the assertion num_lives >= 0 of game_round_init never fails: a round
\* init that decrements num_lives is reached with num_lives > 0 only, and the
\* game is over on the death that happens with num_lives = 0
C37_LivesAssertion ==
    LivesAssertion /\ RoundInitTakesLife /\ DeathArms /\ GameOverOnLastLife

\* game_over fires in a game in which Pacman was eaten in the tick of the
\* last dot of a round
C37_Witness ==
    /\ obs.over_at = timing.tick
    /\ game.num_lives = 0
    /\ game.round >= 1

-----------------------------------------------------------------------------
(* The counter of the eaten ghosts.                                        *)

SPRITETILE_SCORE_200 == 40
SPRITETILE_SCORE_1600 == 43

\* the tile of the sprite of a ghost that was just eaten (game_update_sprites)
score_sprite_tile(S) == SPRITETILE_SCORE_200 + S.game.num_ghosts_eaten - 1

\* game_update_sprites shows the score in place of ghost g in this tick
ScoreShown(g) ==
    /\ gamestate = GAMESTATE_GAME
    /\ game.ghost[g + 1].state = GHOSTSTATE_EYES
    /\ before(game.ghost[g + 1].eaten, GHOST_EATEN_FREEZE_TICKS, timing.tick)

\* num_ghosts_eaten counts the ghosts eaten since its last reset, each of
\* them once: an eaten ghost is not FRIGHTENED again before the next reset
EatenOnce ==
    /\ game.num_ghosts_eaten = Cardinality(obs.since_reset)
    /\ \A g \in obs.since_reset : game.ghost[g + 1].state # GHOSTSTATE_FRIGHTENED

\* the score of an eaten ghost is 20, 40, 80 or 160
EatenScore ==
    \A i \in 1 .. Len(obs.eaten) : obs.eaten[i].delta \in {20, 40, 80, 160}

\* the score sprite is one of the four score tiles
ScoreTile ==
    \A g \in GhostTypes :
        ScoreShown(g) => /\ score_sprite_tile(St) >= SPRITETILE_SCORE_200
                         /\ score_sprite_tile(St) <= SPRITETILE_SCORE_1600

\* C38: num_ghosts_eaten never exceeds 4: after a reset of the counter each
\* of the four ghosts is eaten at most once before the next reset, the score
\* awarded never exceeds 160 and the score sprite tile stays within the four
\* score tiles
C38_GhostsEaten ==
    /\ game.num_ghosts_eaten <= NUM_GHOSTS
    /\ EatenOnce
    /\ EatenScore
    /\ ScoreTile

\* a ghost eaten since the reset is back in SCATTER or CHASE while another
\* ghost is still FRIGHTENED
C38_Witness ==
    /\ game.num_ghosts_eaten >= 1
    /\ \E g \in obs.since_reset :
           game.ghost[g + 1].state \in {GHOSTSTATE_SCATTER, GHOSTSTATE_CHASE}
    /\ \E h \in GhostTypes : game.ghost[h + 1].state = GHOSTSTATE_FRIGHTENED

-----------------------------------------------------------------------------
(* The dots eaten and the dots left.                                       *)

\* the tiles of the grid that hold a dot or a pill
DotsLeft == TilesOf(gfx.video_ram, TILE_DOT) \cup TilesOf(gfx.video_ram, TILE_PILL)

\* the condition of the won round (game_update_dots_eaten, game_round_init)
AllDotsEaten == game.num_dots_eaten = NUM_DOTS

\* C39: at the end of every game tick num_dots_eaten plus the number of
\* the tiles still holding TILE_DOT or TILE_PILL is NUM_DOTS (244): the round
\* is won exactly when no dot or pill tile is left, and num_dots_eaten never
\* exceeds NUM_DOTS
C39_DotCount ==
    (gamestate = GAMESTATE_GAME) =>
        /\ game.num_dots_eaten + Cardinality(DotsLeft) = NUM_DOTS
        /\ AllDotsEaten <=> (DotsLeft = {})
        /\ game.num_dots_eaten <= NUM_DOTS

\* the last dot of a round has been eaten in this tick
C39_Witness ==
    /\ gamestate = GAMESTATE_GAME
    /\ obs.dot
    /\ AllDotsEaten
    /\ DotsLeft = {}
    /\ obs.pre.num_dots_eaten = NUM_DOTS - 1

-----------------------------------------------------------------------------
(* The way back of an eaten ghost.                                         *)

GhostState(g) == game.ghost[g + 1].state

\* the ghost was eaten since the round init
WasEaten(g) == game.ghost[g + 1].eaten # disabled_timer

\* the round is over: a round init has come, or the game loop has ended
RoundOver == obs.round_init \/ (gamestate # GAMESTATE_GAME)

\* where the state update lets a ghost go on: EYES to ENTERHOUSE within one
\* pixel of the house entrance, ENTERHOUSE to LEAVEHOUSE within one pixel of
\* its place in the house, LEAVEHOUSE to SCATTER at the y of the entrance
ReturnSteps ==
    \A g \in GhostTypes :
        LET at == obs.at_update[g + 1]
            to == obs.after_state[g + 1].state
        IN  Transition(g + 1) =>
                /\ (at.state = GHOSTSTATE_EYES)
                       => /\ to = GHOSTSTATE_ENTERHOUSE
                          /\ nearequal_i2(at.actor.pos, i2(ANTEPORTAS_X, ANTEPORTAS_Y), 1)
                /\ (at.state = GHOSTSTATE_ENTERHOUSE)
                       => /\ to = GHOSTSTATE_LEAVEHOUSE
                          /\ nearequal_i2(at.actor.pos, ghost_house_target_pos[g + 1], 1)
                /\ (at.state = GHOSTSTATE_LEAVEHOUSE)
                       => /\ to = GHOSTSTATE_SCATTER
                          /\ at.actor.pos.y = ANTEPORTAS_Y

\* C40: every eaten ghost comes back into play: as long as the round goes on,
\* a ghost in EYES reaches ENTERHOUSE (within 1 pixel of the house entrance),
\* then LEAVEHOUSE (within 1 pixel of its place in the house), then SCATTER
\* (pixel y equal to the y of the entrance); it stays in none of the three
\* states forever
C40_GhostReturns ==
    /\ [](ReturnSteps)
    /\ \A g \in GhostTypes :
           /\ (GhostState(g) = GHOSTSTATE_EYES)
                  ~> ((GhostState(g) = GHOSTSTATE_ENTERHOUSE) \/ RoundOver)
           /\ (GhostState(g) = GHOSTSTATE_ENTERHOUSE)
                  ~> ((GhostState(g) = GHOSTSTATE_LEAVEHOUSE) \/ RoundOver)
           /\ ((GhostState(g) = GHOSTSTATE_LEAVEHOUSE) /\ WasEaten(g))
                  ~> ((GhostState(g) = GHOSTSTATE_SCATTER) \/ RoundOver)

\* a ghost that was eaten goes from LEAVEHOUSE to SCATTER in this tick
C40_Witness ==
    \E g \in GhostTypes :
        /\ WasEaten(g)
        /\ LeftFrom(g + 1, {GHOSTSTATE_LEAVEHOUSE})
        /\ GhostState(g) = GHOSTSTATE_SCATTER
=============================================================================
